---- MODULE Spec2Model ----
(***************************************************************************)
(* SEO_tool: the SEO issue detector (analyze_seo.py), the frontmatter      *)
(* synthesizer (update_frontmatter.py), the GPT-4o enhancer                *)
(* (gpt4o_enhancer.py) and the keyword fixer (fix_keywords.py).            *)
(*                                                                         *)
(* Text is a sequence of characters, each character a one-element string   *)
(* atom ("\n" is the newline).  A CJK character is written as its pinyin   *)
(* atom ("ming" for U+547D), and counts as one character.  A document      *)
(* file is its text, kept as the front-block (the YAML lines between the   *)
(* opening "---\n" and the first "\n---\n") and the text after it.         *)
(***************************************************************************)
EXTENDS Integers, Sequences, FiniteSets, TLC

\* -------------------------------------------------------------------------
\* Bounds of the model.
\* -------------------------------------------------------------------------
MaxOps == 3
MaxClock == 1
MaxAnalyze == 3

\* -------------------------------------------------------------------------
\* Python values as they come out of yaml.safe_load.
\* -------------------------------------------------------------------------
StrV(c) == [t |-> "str", c |-> c]
ListV(l) == [t |-> "list", l |-> l]
IntV(i) == [t |-> "int", i |-> i]
MapV(m) == [t |-> "map", m |-> m]
NoneV == [t |-> "null"]

\* Python truthiness: bool(v).
Truthy(v) ==
  CASE v.t = "str" -> v.c # <<>>
    [] v.t = "list" -> v.l # <<>>
    [] v.t = "int" -> v.i # 0
    [] v.t = "map" -> DOMAIN v.m # {}
    [] OTHER -> FALSE

\* dict: a function from the keys present to their values.
EmptyDict == [k \in {} |-> NoneV]
Get(d, k) == IF k \in DOMAIN d THEN d[k] ELSE NoneV
GetOr(d, k, default) == IF k \in DOMAIN d THEN d[k] ELSE default
Put(d, k, v) == [y \in DOMAIN d \cup {k} |-> IF y = k THEN v ELSE d[y]]
Without(d, k) == [y \in DOMAIN d \ {k} |-> d[y]]

\* -------------------------------------------------------------------------
\* Sequence helpers for text.
\* -------------------------------------------------------------------------
Min2(a, b) == IF a <= b THEN a ELSE b

\* the least element of a non-empty set of integers, 0 for the empty set
MinOrZero(S) == IF S = {} THEN 0 ELSE CHOOSE j \in S : \A k \in S : j <= k

RECURSIVE Concat(_)
Concat(ss) == IF ss = <<>> THEN <<>> ELSE Head(ss) \o Concat(Tail(ss))

\* sep.join(parts)
RECURSIVE Join(_, _)
Join(sep, parts) ==
  IF parts = <<>> THEN <<>>
  ELSE IF Len(parts) = 1 THEN parts[1]
  ELSE parts[1] \o sep \o Join(sep, Tail(parts))

\* s[i..] starts with pat
StartsAt(s, i, pat) ==
  /\ i >= 1
  /\ i + Len(pat) - 1 <= Len(s)
  /\ \A j \in 1..Len(pat) : s[i + j - 1] = pat[j]

StartsWith(s, pat) == StartsAt(s, 1, pat)
EndsWith(s, pat) == Len(pat) <= Len(s) /\ StartsAt(s, Len(s) - Len(pat) + 1, pat)

\* the least index >= i where pat starts, or 0
Find(s, i, pat) ==
  MinOrZero({j \in i..(Len(s) - Len(pat) + 1) : StartsAt(s, j, pat)})

\* the least index >= i of a character in the set (not in the set), or 0
FirstIn(s, i, set) == MinOrZero({j \in i..Len(s) : s[j] \in set})
FirstNotIn(s, i, set) == MinOrZero({j \in i..Len(s) : s[j] \notin set})

\* the length of the run of characters in the set (not in the set) that starts at i
RunLen(s, i, set) ==
  IF i > Len(s) THEN 0
  ELSE LET j == FirstNotIn(s, i, set) IN IF j = 0 THEN Len(s) - i + 1 ELSE j - i
RunLenNot(s, i, set) ==
  IF i > Len(s) THEN 0
  ELSE LET j == FirstIn(s, i, set) IN IF j = 0 THEN Len(s) - i + 1 ELSE j - i

\* s.split(sep) for a non-empty separator
RECURSIVE SplitFrom(_, _, _)
SplitFrom(s, i, sep) ==
  LET j == Find(s, i, sep)
  IN IF j = 0 THEN << SubSeq(s, i, Len(s)) >>
     ELSE << SubSeq(s, i, j - 1) >> \o SplitFrom(s, j + Len(sep), sep)
Split(s, sep) == SplitFrom(s, 1, sep)

Whitespace == {" ", "\n", "\t"}

\* s.strip()
Strip(s) ==
  LET keep == {j \in 1..Len(s) : s[j] \notin Whitespace}
  IN IF keep = {} THEN <<>>
     ELSE SubSeq(s, CHOOSE j \in keep : \A k \in keep : j <= k,
                    CHOOSE j \in keep : \A k \in keep : j >= k)

\* [f(x) for x in seq]
StripAll(parts) == [i \in 1..Len(parts) |-> Strip(parts[i])]

\* x in seq
InSeq(x, seq) == \E i \in 1..Len(seq) : seq[i] = x

\* the number of times x occurs in seq
RECURSIVE CountIn(_, _)
CountIn(x, seq) ==
  IF seq = <<>> THEN 0
  ELSE (IF Head(seq) = x THEN 1 ELSE 0) + CountIn(x, Tail(seq))

\* -------------------------------------------------------------------------
\* update_frontmatter.py: tables and content heuristics.
\* -------------------------------------------------------------------------
\* The characters of the range [\u4e00-\u9fff] that occur in the model.
CJK == {"shi", "shen", "ming", "li", "ba", "zi", "zhong", "guo", "chuan",
        "tong", "wen", "hua", "xue", "tian", "gan", "di", "zhi", "sha",
        "ji", "xiong", "er", "chang", "sheng", "xing", "yun", "qi", "ta",
        "ming2", "ci", "jie3", "shi4", "shu", "yu", "jie", "shao", "bi",
        "jian"}

DefaultAuthor == <<"C", "a", "n", "t", "i", "a", "n", " ", "A", "I", " ",
                   "T", "e", "a", "m">>

KwMingLi == <<"ming", "li">>
KwBaZi == <<"ba", "zi">>
KwCulture == <<"zhong", "guo", "chuan", "tong", "wen", "hua">>
KwMingLiXue == <<"ming", "li", "xue">>
KwGanZhi == <<"gan", "zhi">>

DirShiShen == <<"shi", "shen">>
DirTianGan == <<"tian", "gan">>
DirDiZhi == <<"di", "zhi">>
DirShenSha == <<"shen", "sha">>
DirXingYun == <<"xing", "yun", "_", "shi", "er", "chang", "sheng", "_">>
DirOther == <<"qi", "ta", "ming2", "ci", "jie3", "shi4">>

GlossaryDirs == {DirShiShen, DirTianGan, DirDiZhi, DirShenSha, DirXingYun, DirOther}

DefaultKeywords == <<KwMingLi, KwBaZi, KwCulture>>

\* DIRECTORY_KEYWORDS.get(dir_name, <the default triple>)
DIRECTORY_KEYWORDS(dir_name) ==
  CASE dir_name = DirShiShen ->
         <<DirShiShen, KwMingLi, KwBaZi, KwCulture, KwMingLiXue>>
    [] dir_name = DirTianGan ->
         <<DirTianGan, KwMingLi, KwBaZi, KwCulture, KwMingLiXue, KwGanZhi>>
    [] dir_name = DirDiZhi ->
         <<DirDiZhi, KwMingLi, KwBaZi, KwCulture, KwMingLiXue, KwGanZhi>>
    [] dir_name = DirShenSha ->
         <<DirShenSha, KwMingLi, KwBaZi, KwCulture, KwMingLiXue, <<"ji", "xiong">> >>
    [] dir_name = DirXingYun ->
         << <<"shi", "er", "chang", "sheng">>, <<"xing", "yun">>, KwMingLi, KwBaZi,
            KwCulture, KwMingLiXue >>
    [] dir_name = DirOther ->
         <<KwMingLi, KwBaZi, KwCulture, KwMingLiXue, <<"shu", "yu">> >>
    [] OTHER -> DefaultKeywords

\* A path is the sequence of its components, each a text.
\* os.path.basename(os.path.dirname(file_path))
DirName(file_path) ==
  IF Len(file_path) >= 2 THEN file_path[Len(file_path) - 1] ELSE <<>>
\* os.path.basename(file_path)
FileName(file_path) == file_path[Len(file_path)]

IntroSuffix == <<"jie", "shao", ".", "m", "d">>

\* A faulty variant of get_structured_data_type that looks at the directory
\* alone; the classification property C16 must reject it.
get_structured_data_type_by_directory(file_path) ==
  IF DirName(file_path) \in GlossaryDirs
  THEN <<"D", "e", "f", "i", "n", "e", "d", "T", "e", "r", "m">>
  ELSE <<"A", "r", "t", "i", "c", "l", "e">>

get_structured_data_type(file_path) ==
  IF DirName(file_path) \in GlossaryDirs /\ ~EndsWith(FileName(file_path), IntroSuffix)
  THEN <<"D", "e", "f", "i", "n", "e", "d", "T", "e", "r", "m">>
  ELSE <<"A", "r", "t", "i", "c", "l", "e">>

MaxKeywords == 5
MaxWordLen == 5
MinWordLen == 2

\* re.findall(r'[\u4e00-\u9fff]{2,5}', content)
RECURSIVE ChineseWords(_, _)
ChineseWords(s, from) ==
  LET i == FirstIn(s, from, CJK)
  IN IF i = 0 THEN <<>>
     ELSE LET r == RunLen(s, i, CJK)
          IN IF r >= MinWordLen
             THEN LET n == Min2(r, MaxWordLen)
                  IN << SubSeq(s, i, i + n - 1) >> \o ChineseWords(s, i + n)
             ELSE ChineseWords(s, i + 1)

\* the keys of word_freq in insertion order
RECURSIVE Unique(_)
Unique(seq) ==
  IF seq = <<>> THEN <<>>
  ELSE LET front == Unique(SubSeq(seq, 1, Len(seq) - 1))
           x == seq[Len(seq)]
       IN IF InSeq(x, front) THEN front ELSE Append(front, x)

\* sorted(items, key=count, reverse=True): stable, so ties keep their order
RECURSIVE SortByCountDesc(_, _)
SortByCountDesc(keys, all) ==
  IF keys = <<>> THEN <<>>
  ELSE LET best == CHOOSE i \in 1..Len(keys) :
                     /\ \A j \in 1..Len(keys) : CountIn(keys[j], all) <= CountIn(keys[i], all)
                     /\ \A j \in 1..(i - 1) : CountIn(keys[j], all) < CountIn(keys[i], all)
           rest == [j \in 1..(Len(keys) - 1) |-> IF j < best THEN keys[j] ELSE keys[j + 1]]
       IN << keys[best] >> \o SortByCountDesc(rest, all)

\* A faulty variant of extract_keywords_from_content that takes the first
\* words seen, whatever their frequency; the keyword property C17 must
\* reject it.
extract_keywords_first_seen(content) ==
  LET words == Unique(ChineseWords(content, 1))
  IN SubSeq(words, 1, Min2(MaxKeywords, Len(words)))

extract_keywords_from_content(content) ==
  LET chinese_words == ChineseWords(content, 1)
      sorted_words == SortByCountDesc(Unique(chinese_words), chinese_words)
  IN SubSeq(sorted_words, 1, Min2(MaxKeywords, Len(sorted_words)))

\* re.sub(r'#+ ', '', s)
RECURSIVE SubHeadingMarks(_, _)
SubHeadingMarks(s, from) ==
  LET i == FirstIn(s, from, {"#"})
  IN IF i = 0 THEN SubSeq(s, from, Len(s))
     ELSE LET r == RunLen(s, i, {"#"})
          IN IF i + r <= Len(s) /\ s[i + r] = " "
             THEN SubSeq(s, from, i - 1) \o SubHeadingMarks(s, i + r + 1)
             ELSE SubSeq(s, from, i + r - 1) \o SubHeadingMarks(s, i + r)

\* re.sub(r'\[([^\]]+)\]\([^)]+\)', r'\1', s)
RECURSIVE SubLinks(_, _)
SubLinks(s, from) ==
  LET i == FirstIn(s, from, {"["})
  IN IF i = 0 THEN SubSeq(s, from, Len(s))
     ELSE LET j == Find(s, i + 1, <<"]">>)
              k == IF j > i + 1 /\ j + 1 <= Len(s) /\ s[j + 1] = "("
                   THEN Find(s, j + 2, <<")">>) ELSE 0
          IN IF k > j + 2
             THEN SubSeq(s, from, i - 1) \o SubSeq(s, i + 1, j - 1) \o SubLinks(s, k + 1)
             ELSE SubSeq(s, from, i) \o SubLinks(s, i + 1)

EmphasisMarks == {"*", "_"}

\* re.sub(r'[*_]{1,2}([^*_]+)[*_]{1,2}', r'\1', s)
RECURSIVE SubEmphasis(_, _)
SubEmphasis(s, from) ==
  LET i == FirstIn(s, from, EmphasisMarks)
  IN IF i = 0 THEN SubSeq(s, from, Len(s))
     ELSE LET k == RunLen(s, i, EmphasisMarks)
              n == RunLenNot(s, i + k, EmphasisMarks)
              e == i + k + n
              c == Min2(2, RunLen(s, e, EmphasisMarks))
          IN IF k \in {1, 2} /\ n >= 1 /\ c >= 1
             THEN SubSeq(s, from, i - 1) \o SubSeq(s, i + k, e - 1) \o SubEmphasis(s, e + c)
             ELSE SubSeq(s, from, i) \o SubEmphasis(s, i + 1)

MaxDescriptionLength == 150
Ellipsis == <<".", ".", ".">>
FrontDelimiter == <<"-", "-", "-">>

\* the first paragraph that is non-empty and does not start with '---'
RECURSIVE FirstParagraph(_)
FirstParagraph(paragraphs) ==
  IF paragraphs = <<>> THEN <<>>
  ELSE LET p == Strip(Head(paragraphs))
       IN IF p # <<>> /\ ~StartsWith(p, FrontDelimiter)
          THEN (IF Len(p) > MaxDescriptionLength
                THEN SubSeq(p, 1, MaxDescriptionLength) \o Ellipsis
                ELSE p)
          ELSE FirstParagraph(Tail(paragraphs))

generate_description(content) ==
  LET plain_text == SubEmphasis(SubLinks(SubHeadingMarks(content, 1), 1), 1)
  IN FirstParagraph(Split(plain_text, <<"\n", "\n">>))

\* re.search(r'^# (.+)$', content, re.MULTILINE): the group, or <<>> for no match
RECURSIVE TitleOfLines(_)
TitleOfLines(lines) ==
  IF lines = <<>> THEN <<>>
  ELSE IF StartsWith(Head(lines), <<"#", " ">>) /\ Len(Head(lines)) >= 3
       THEN SubSeq(Head(lines), 3, Len(Head(lines)))
       ELSE TitleOfLines(Tail(lines))
TitleMatch(content) == TitleOfLines(Split(content, <<"\n">>))

\* -------------------------------------------------------------------------
\* The front-block: YAML text, one line per top-level entry.
\*   [k |-> "kv", key, v]   key: value (a nested mapping is one entry)
\*   [k |-> "scalar", c]    a plain scalar that is no mapping entry
\*   [k |-> "bad"]          text the YAML parser rejects
\* -------------------------------------------------------------------------
KvLine(key, v) == [k |-> "kv", key |-> key, v |-> v]
ScalarLine(c) == [k |-> "scalar", c |-> c]
BadLine == [k |-> "bad"]

\* the keys a front-block of the model may hold, in the order they are dumped
AllKeys == <<"description", "keywords", "author", "datePublished", "dateModified",
             "structuredData", "title", "sidebar_label", "sidebar_position",
             "hide_title", "hide_table_of_contents", "tags">>

\* the mapping a sequence of entries builds: a later duplicate key wins
RECURSIVE DictOfLines(_)
DictOfLines(lines) ==
  IF lines = <<>> THEN EmptyDict
  ELSE LET last_line == lines[Len(lines)]
       IN Put(DictOfLines(SubSeq(lines, 1, Len(lines) - 1)), last_line.key, last_line.v)

\* yaml.safe_load(text): err for yaml.YAMLError, else the value
yaml_safe_load(lines) ==
  IF \E i \in 1..Len(lines) : lines[i].k = "bad" THEN [err |-> TRUE, v |-> NoneV]
  ELSE IF lines = <<>> THEN [err |-> FALSE, v |-> NoneV]
  ELSE IF \A i \in 1..Len(lines) : lines[i].k = "kv"
       THEN [err |-> FALSE, v |-> MapV(DictOfLines(lines))]
  ELSE IF \A i \in 1..Len(lines) : lines[i].k = "scalar"
       THEN [err |-> FALSE,
             v |-> StrV(Join(<<" ">>, [i \in 1..Len(lines) |-> lines[i].c]))]
  ELSE [err |-> TRUE, v |-> NoneV]

\* yaml.dump(d, allow_unicode=True, sort_keys=False)
RECURSIVE DumpKeys(_, _)
DumpKeys(d, keys) ==
  IF keys = <<>> THEN <<>>
  ELSE (IF Head(keys) \in DOMAIN d THEN << KvLine(Head(keys), d[Head(keys)]) >> ELSE <<>>)
       \o DumpKeys(d, Tail(keys))
yaml_dump(d) == DumpKeys(d, AllKeys)

\* A document file: whether its text starts with a front-block, the lines of
\* the block, and the text after the closing delimiter (the whole text when
\* there is no block).
File(fm, yaml, body) == [fm |-> fm, yaml |-> yaml, body |-> body]

\* re.match(r'^---\n(.*?)\n---\n', content, re.DOTALL), then yaml.safe_load of
\* the group with None read as {}, and content[frontmatter_match.end():]
ParseFront(file) ==
  IF ~file.fm THEN [status |-> "missing", v |-> MapV(EmptyDict), body |-> file.body]
  ELSE LET loaded == yaml_safe_load(file.yaml)
       IN IF loaded.err
          THEN [status |-> "invalid", v |-> MapV(EmptyDict), body |-> file.body]
          ELSE [status |-> "ok",
                v |-> IF loaded.v = NoneV THEN MapV(EmptyDict) ELSE loaded.v,
                body |-> file.body]

\* A faulty variant of NewContent that trims the text it puts after the
\* front-block; the write-back property C25 must reject it.
NewContentTrimmed(d, content_without_frontmatter) ==
  File(TRUE, yaml_dump(d), Strip(content_without_frontmatter))

\* f"---\n{new_frontmatter_yaml}---\n{content_without_frontmatter}"
NewContent(d, content_without_frontmatter) ==
  File(TRUE, yaml_dump(d), content_without_frontmatter)

\* -------------------------------------------------------------------------
\* Timestamps: strftime("%Y-%m-%dT%H:%M:%SZ") of the clock value.
\* -------------------------------------------------------------------------
RECURSIVE Digits(_)
Digits(n) ==
  LET Digit == <<"0", "1", "2", "3", "4", "5", "6", "7", "8", "9">> IN
  IF n < 10 THEN << Digit[n + 1] >>
  ELSE Digits(n \div 10) \o << Digit[(n % 10) + 1] >>
Stamp(now) == <<"T">> \o Digits(now) \o <<"Z">>

\* -------------------------------------------------------------------------
\* update_frontmatter.py: update_frontmatter
\* -------------------------------------------------------------------------
Article == <<"A", "r", "t", "i", "c", "l", "e">>

\* The module-level DEFAULT_FRONTMATTER as built when the module is imported
\* at time import_time.
DefaultFrontmatterAt(import_time) ==
  [description |-> StrV(<<>>),
   keywords |-> StrV(<<>>),
   author |-> StrV(DefaultAuthor),
   datePublished |-> StrV(Stamp(import_time)),
   dateModified |-> StrV(Stamp(import_time)),
   structuredData |-> MapV([type |-> StrV(Article)])]

BasicKeys == <<"title", "sidebar_label", "sidebar_position", "hide_title",
               "hide_table_of_contents">>

\* new_frontmatter = DEFAULT_FRONTMATTER.copy(), then the existing basic fields
RECURSIVE CopyKeys(_, _, _)
CopyKeys(new, existing, keys) ==
  IF keys = <<>> THEN new
  ELSE CopyKeys(IF Head(keys) \in DOMAIN existing
                THEN Put(new, Head(keys), existing[Head(keys)]) ELSE new,
                existing, Tail(keys))
BasicFields(existing, default) == CopyKeys(default, existing, BasicKeys)

\* the title from the first '# ' line when there is none
WithTitle(new, content) ==
  IF "title" \notin DOMAIN new /\ TitleMatch(content) # <<>>
  THEN Put(new, "title", StrV(TitleMatch(content)))
  ELSE new

WithSidebarLabel(new) ==
  IF "sidebar_label" \notin DOMAIN new /\ "title" \in DOMAIN new
  THEN Put(new, "sidebar_label", new["title"])
  ELSE new

NewDescription(existing, content) ==
  IF ~Truthy(Get(existing, "description"))
  THEN StrV(generate_description(content))
  ELSE existing["description"]

MaxTotalKeywords == 10

NewKeywords(existing, content, file_path) ==
  IF ~Truthy(Get(existing, "keywords"))
  THEN LET base_keywords == DIRECTORY_KEYWORDS(DirName(file_path))
           content_keywords == extract_keywords_from_content(content)
           unique_keywords == Unique(base_keywords \o content_keywords)
       IN StrV(Join(<<",", " ">>,
                    SubSeq(unique_keywords, 1, Min2(MaxTotalKeywords, Len(unique_keywords)))))
  ELSE existing["keywords"]

\* existing_frontmatter.get('structuredData', {}).get('type') raises
\* AttributeError when the value is no mapping
StructuredDataRaises(existing) ==
  "structuredData" \in DOMAIN existing /\ existing["structuredData"].t # "map"

NewStructuredDataType(existing, file_path) ==
  LET sd == GetOr(existing, "structuredData", MapV(EmptyDict)).m
  IN IF ~Truthy(Get(sd, "type"))
     THEN StrV(get_structured_data_type(file_path))
     ELSE sd["type"]

NewDatePublished(existing, default) ==
  IF Truthy(Get(existing, "datePublished"))
  THEN existing["datePublished"]
  ELSE default["datePublished"]

NewDateModified(existing, now) ==
  IF Truthy(Get(existing, "dateModified"))
  THEN existing["dateModified"]
  ELSE StrV(Stamp(now))

\* A faulty variant of SharedStructuredData that assigns 'type' only while the
\* shared mapping still holds the template's value, so that the type of an
\* earlier document stays; the isolation property C23 must reject it.
SharedStructuredDataSticky(default, type) ==
  IF default["structuredData"].m["type"] = StrV(Article)
  THEN MapV(Put(default["structuredData"].m, "type", type))
  ELSE default["structuredData"]

\* the nested mapping DEFAULT_FRONTMATTER['structuredData'], which every
\* new_frontmatter shares, after its 'type' is assigned
SharedStructuredData(default, type) ==
  MapV(Put(default["structuredData"].m, "type", type))

\* A faulty variant of NewFrontmatter that stamps datePublished anew on every
\* pass; the idempotence property C1 must reject it.
NewFrontmatterRestamped(existing, content, file_path, now, default) ==
  LET basic == WithSidebarLabel(WithTitle(BasicFields(existing, default), content))
  IN [y \in DOMAIN basic |->
        CASE y = "description" -> NewDescription(existing, content)
          [] y = "keywords" -> NewKeywords(existing, content, file_path)
          [] y = "structuredData" ->
               SharedStructuredData(default, NewStructuredDataType(existing, file_path))
          [] y = "datePublished" -> StrV(Stamp(now))
          [] y = "dateModified" -> NewDateModified(existing, now)
          [] OTHER -> basic[y]]

\* new_frontmatter as it is dumped
NewFrontmatter(existing, content, file_path, now, default) ==
  LET basic == WithSidebarLabel(WithTitle(BasicFields(existing, default), content))
  IN [y \in DOMAIN basic |->
        CASE y = "description" -> NewDescription(existing, content)
          [] y = "keywords" -> NewKeywords(existing, content, file_path)
          [] y = "structuredData" ->
               SharedStructuredData(default, NewStructuredDataType(existing, file_path))
          [] y = "datePublished" -> NewDatePublished(existing, default)
          [] y = "dateModified" -> NewDateModified(existing, now)
          [] OTHER -> basic[y]]

NoRecord == EmptyDict

\* A faulty variant of update_frontmatter that reads a malformed front-block
\* as an empty one and goes on; the abort property C6 must reject it.
update_frontmatter_lenient(file, file_path, preview, now, default) ==
  LET parsed == ParseFront(file)
      existing == parsed.v.m
  IN IF parsed.v.t # "map" \/ StructuredDataRaises(existing)
     THEN [ret |-> "raised", rec |-> NoRecord, file |-> file, default |-> default]
     ELSE LET new_frontmatter ==
                NewFrontmatter(existing, parsed.body, file_path, now, default)
          IN [ret |-> "True",
              rec |-> new_frontmatter,
              file |-> IF preview THEN file ELSE NewContent(new_frontmatter, parsed.body),
              default |-> [default EXCEPT !["structuredData"] =
                                            new_frontmatter["structuredData"]]]

\* The outcome of update_frontmatter(file_path, args): what it returns ("True",
\* "False", or "raised" for an exception), the record it built, the file and
\* DEFAULT_FRONTMATTER afterwards.
update_frontmatter(file, file_path, preview, now, default) ==
  LET parsed == ParseFront(file)
      existing == parsed.v.m
  IN IF parsed.status = "invalid"
     THEN [ret |-> "False", rec |-> NoRecord, file |-> file, default |-> default]
     ELSE IF parsed.v.t # "map" \/ StructuredDataRaises(existing)
     THEN [ret |-> "raised", rec |-> NoRecord, file |-> file, default |-> default]
     ELSE LET new_frontmatter ==
                NewFrontmatter(existing, parsed.body, file_path, now, default)
          IN [ret |-> "True",
              rec |-> new_frontmatter,
              file |-> IF preview THEN file ELSE NewContent(new_frontmatter, parsed.body),
              default |-> [default EXCEPT !["structuredData"] =
                                            new_frontmatter["structuredData"]]]

\* -------------------------------------------------------------------------
\* fix_keywords.py: fix_keywords_in_file
\* -------------------------------------------------------------------------
\* str(v) for the values that are neither str nor list
ToStr(v) ==
  CASE v.t = "int" -> Digits(v.i)
    [] v.t = "null" -> <<"N", "o", "n", "e">>
    [] OTHER -> <<"{", "}">>

\* A faulty variant of SplitKeywords that leaves the blanks around the tokens;
\* the normalisation property C24 must reject it.
SplitKeywordsUntrimmed(c) == Split(c, <<",">>)

\* [k.strip() for k in s.split(',')]
SplitKeywords(c) == StripAll(Split(c, <<",">>))

FixedKeywords(frontmatter) ==
  IF "keywords" \in DOMAIN frontmatter
  THEN (IF frontmatter["keywords"].t = "str"
        THEN ListV(SplitKeywords(frontmatter["keywords"].c))
        ELSE ListV(<< ToStr(frontmatter["keywords"]) >>))
  ELSE ListV(<<>>)

fix_keywords_in_file(file) ==
  LET parsed == ParseFront(file)
      frontmatter == parsed.v.m
  IN IF parsed.status # "ok"
     THEN [ret |-> "False", file |-> file]
     ELSE IF parsed.v.t # "map"
     THEN [ret |-> "raised", file |-> file]
     ELSE IF "keywords" \in DOMAIN frontmatter /\ frontmatter["keywords"].t = "list"
     THEN [ret |-> "True", file |-> file]
     ELSE [ret |-> "True",
           file |-> NewContent(Put(frontmatter, "keywords", FixedKeywords(frontmatter)),
                               parsed.body)]

\* -------------------------------------------------------------------------
\* gpt4o_enhancer.py: enhance_frontmatter.  What a call of the model API
\* gives is an input of the step:
\*   [k |-> "raise"]      an exception other than HTTPError (timeout, bad JSON body)
\*   [k |-> "none"]       None (HTTPError) or an empty text
\*   [k |-> "text", c]    the stripped, non-empty text of the first choice
\* and for generate_structured_data, after json.loads of the text,
\*   [k |-> "json", v]    the parsed value ("none" also for a JSONDecodeError)
\* -------------------------------------------------------------------------
CallRaise == [k |-> "raise"]
CallNone == [k |-> "none"]
CallText(c) == [k |-> "text", c |-> c]
CallJson(v) == [k |-> "json", v |-> v]

\* len(v) for the values that have one
Length(v) ==
  CASE v.t = "str" -> Len(v.c)
    [] v.t = "list" -> Len(v.l)
    [] v.t = "map" -> Cardinality(DOMAIN v.m)
    [] OTHER -> 0

EnhanceMinDescription == 50

\* the characters of [a-zA-Z0-9\u4e00-\u9fff,]
KeywordChars ==
  CJK \cup {","} \cup
  {"a", "b", "c", "d", "e", "f", "g", "h", "i", "j", "k", "l", "m", "n", "o", "p",
   "q", "r", "s", "t", "u", "v", "w", "x", "y", "z",
   "A", "B", "C", "D", "E", "F", "G", "H", "I", "J", "K", "L", "M", "N", "O", "P",
   "Q", "R", "S", "T", "U", "V", "W", "X", "Y", "Z",
   "0", "1", "2", "3", "4", "5", "6", "7", "8", "9"}

\* re.sub(r'^[^a-zA-Z0-9\u4e00-\u9fff,]+', '', r), then the same at the end
CleanKeywords(r) ==
  LET keep == {j \in 1..Len(r) : r[j] \in KeywordChars}
  IN IF keep = {} THEN <<>>
     ELSE SubSeq(r, CHOOSE j \in keep : \A k \in keep : j <= k,
                    CHOOSE j \in keep : \A k \in keep : j >= k)

\* optimize_keywords(content, directory_name, existing_keywords): the text it
\* returns, given what the API call gave
optimize_keywords(existing_keywords, call) ==
  LET existing_kw_str == Join(<<",", " ">>, existing_keywords)
  IN IF call.k = "text" THEN CleanKeywords(call.c) ELSE existing_kw_str

\* the description step (lines 222-226)
EnhanceDescriptionNeeded(frontmatter) ==
  \/ ~Truthy(Get(frontmatter, "description"))
  \/ Length(Get(frontmatter, "description")) < EnhanceMinDescription

EnhancedDescription(frontmatter, call) ==
  IF EnhanceDescriptionNeeded(frontmatter) /\ call.k = "text"
  THEN Put(frontmatter, "description", StrV(call.c))
  ELSE frontmatter

\* the keywords step (lines 228-236)
EnhancedKeywords(frontmatter, call) ==
  LET kw == Get(frontmatter, "keywords")
      existing_keywords == IF Truthy(kw) THEN Split(kw.c, <<",">>) ELSE <<>>
      keywords == optimize_keywords(existing_keywords, call)
  IN IF keywords # <<>> THEN Put(frontmatter, "keywords", StrV(keywords)) ELSE frontmatter

\* A faulty variant of EnhancedDates that stamps datePublished whether or
\* not it is there; the property C4 must reject it.
EnhancedDatesOverwriting(frontmatter, now) ==
  Put(Put(frontmatter, "datePublished", StrV(Stamp(now))), "dateModified", StrV(Stamp(now)))

\* the dates and the author (lines 238-245)
EnhancedDates(frontmatter, now) ==
  Put(IF ~Truthy(Get(frontmatter, "datePublished"))
      THEN Put(frontmatter, "datePublished", StrV(Stamp(now)))
      ELSE frontmatter,
      "dateModified", StrV(Stamp(now)))

EnhancedAuthor(frontmatter) ==
  IF ~Truthy(Get(frontmatter, "author"))
  THEN Put(frontmatter, "author", StrV(DefaultAuthor))
  ELSE frontmatter

\* the structured data step (lines 247-254)
EnhancedStructuredData(frontmatter, call) ==
  LET base == IF ~Truthy(Get(frontmatter, "structuredData"))
              THEN Put(frontmatter, "structuredData", MapV(EmptyDict))
              ELSE frontmatter
  IN IF call.k = "json" /\ Truthy(call.v)
     THEN Put(base, "structuredData",
              MapV(Put(base["structuredData"].m, "type",
                       GetOr(call.v.m, "@type", StrV(Article)))))
     ELSE base

\* the exceptions of enhance_frontmatter on a mapping: len() of a number,
\* .split of a value that is no str, an API call that raises, .get of a JSON
\* value that is no object, item assignment into a value that is no mapping
EnhanceRaises(frontmatter, gDesc, gKw, gSD) ==
  LET d == Get(frontmatter, "description")
      kw == Get(frontmatter, "keywords")
      sd == Get(frontmatter, "structuredData")
  IN \/ Truthy(d) /\ d.t = "int"
     \/ EnhanceDescriptionNeeded(frontmatter) /\ gDesc.k = "raise"
     \/ Truthy(kw) /\ kw.t # "str"
     \/ gKw.k = "raise"
     \/ gSD.k = "raise"
     \/ gSD.k = "json" /\ Truthy(gSD.v) /\ gSD.v.t # "map"
     \/ gSD.k = "json" /\ Truthy(gSD.v) /\ Truthy(sd) /\ sd.t # "map"

enhance_frontmatter(file, now, gDesc, gKw, gSD) ==
  LET parsed == ParseFront(file)
      frontmatter == parsed.v.m
  IN IF parsed.status # "ok"
     THEN [ret |-> "False", file |-> file]
     ELSE IF parsed.v.t # "map" \/ EnhanceRaises(frontmatter, gDesc, gKw, gSD)
     THEN [ret |-> "raised", file |-> file]
     ELSE [ret |-> "True",
           file |-> NewContent(
                      EnhancedStructuredData(
                        EnhancedAuthor(
                          EnhancedDates(
                            EnhancedKeywords(EnhancedDescription(frontmatter, gDesc), gKw),
                            now)),
                        gSD),
                      parsed.body)]

\* -------------------------------------------------------------------------
\* analyze_seo.py: the body checks of analyze_file.
\* -------------------------------------------------------------------------
\* the index of the newline that ends the line of i, Len(s) + 1 on the last line
LineEnd(s, i) ==
  LET j == FirstIn(s, i, {"\n"}) IN IF j = 0 THEN Len(s) + 1 ELSE j

\* \[(.*?)\]\((.*?)\) tried with the '[' at i: the indices <<a, c>> of the
\* "](" and of the ")" it matches, on the line of i, or <<0, 0>>
BracketMatch(s, i) ==
  LET a == Find(s, i + 1, <<"]", "(">>)
      c == IF a # 0 /\ a + 1 < LineEnd(s, i) THEN Find(s, a + 2, <<")">>) ELSE 0
  IN IF c # 0 /\ c < LineEnd(s, i) THEN <<a, c>> ELSE <<0, 0>>

\* re.findall(r'!\[(.*?)\]\((.*?)\)', s): the alt texts
RECURSIVE ImageAlts(_, _)
ImageAlts(s, from) ==
  LET i == Find(s, from, <<"!", "[">>)
  IN IF i = 0 THEN <<>>
     ELSE LET m == BracketMatch(s, i + 1)
          IN IF m[1] # 0
             THEN << SubSeq(s, i + 2, m[1] - 1) >> \o ImageAlts(s, m[2] + 1)
             ELSE ImageAlts(s, i + 1)

Http == <<"h", "t", "t", "p">>

\* (?!.*?http) at i: no "http" between i and the end of the line
NoHttpAhead(s, i) ==
  LET h == Find(s, i, Http) IN h = 0 \/ h + Len(Http) > LineEnd(s, i)

\* len(re.findall(r'\[(?!.*?http)[^\]]+\]\([^)]+\)', s))
RECURSIVE CountInternalLinks(_, _)
CountInternalLinks(s, from) ==
  LET i == FirstIn(s, from, {"["})
  IN IF i = 0 THEN 0
     ELSE LET j == Find(s, i + 1, <<"]">>)
              k == IF j > i + 1 /\ j + 1 <= Len(s) /\ s[j + 1] = "("
                   THEN Find(s, j + 2, <<")">>) ELSE 0
          IN IF NoHttpAhead(s, i + 1) /\ k > j + 2
             THEN 1 + CountInternalLinks(s, k + 1)
             ELSE CountInternalLinks(s, i + 1)

\* re.findall(r'^##+ (.+)$', s, re.MULTILINE) is not empty
IsHeadingLine(line) ==
  LET r == RunLen(line, 1, {"#"})
  IN r >= 2 /\ Len(line) >= r + 2 /\ line[r + 1] = " "
HasHeadings(s) ==
  LET lines == Split(s, <<"\n">>) IN \E i \in 1..Len(lines) : IsHeadingLine(lines[i])

\* \n\s*\n tried at the newline i: the index of the newline it ends at, or 0
BlankEnd(s, i) ==
  LET r == RunLen(s, i, Whitespace)
      nl == {j \in (i + 1)..(i + r - 1) : s[j] = "\n"}
  IN IF nl = {} THEN 0 ELSE CHOOSE j \in nl : \A k \in nl : j >= k

\* re.split(r'\n\s*\n', s)
RECURSIVE SplitParagraphs(_, _)
SplitParagraphs(s, from) ==
  LET i == MinOrZero({j \in from..Len(s) : s[j] = "\n" /\ BlankEnd(s, j) # 0})
  IN IF i = 0 THEN << SubSeq(s, from, Len(s)) >>
     ELSE << SubSeq(s, from, i - 1) >> \o SplitParagraphs(s, BlankEnd(s, i) + 1)

MaxParagraphLength == 300

HasLongParagraph(s) ==
  LET paragraphs == SplitParagraphs(s, 1)
  IN \E i \in 1..Len(paragraphs) :
       LET p == Strip(paragraphs[i])
       IN Len(p) > MaxParagraphLength /\ p[1] # "#" /\ p[1] # "!"

\* "bt" stands for the backtick character
MarkupChars == {"#", "*", "_", "bt", "!", "["}

\* re.sub of heading marks, emphasis marks, backticks, images and links by ''
RECURSIVE SubMarkup(_, _)
SubMarkup(s, from) ==
  LET i == FirstIn(s, from, MarkupChars)
  IN IF i = 0 THEN SubSeq(s, from, Len(s))
     ELSE SubSeq(s, from, i - 1) \o
          (CASE s[i] = "#" ->
                  LET r == RunLen(s, i, {"#"})
                  IN IF i + r <= Len(s) /\ s[i + r] = " "
                     THEN SubMarkup(s, i + r + 1)
                     ELSE SubSeq(s, i, i + r - 1) \o SubMarkup(s, i + r)
             [] s[i] \in {"*", "_", "bt"} -> SubMarkup(s, i + 1)
             [] s[i] = "!" ->
                  IF i + 1 <= Len(s) /\ s[i + 1] = "[" /\ BracketMatch(s, i + 1)[1] # 0
                  THEN SubMarkup(s, BracketMatch(s, i + 1)[2] + 1)
                  ELSE << s[i] >> \o SubMarkup(s, i + 1)
             [] OTHER ->
                  IF BracketMatch(s, i)[1] # 0
                  THEN SubMarkup(s, BracketMatch(s, i)[2] + 1)
                  ELSE << s[i] >> \o SubMarkup(s, i + 1))

MinContentLength == 200

LowContentDensity(s) == Len(Strip(SubMarkup(s, 1))) < MinContentLength

\* -------------------------------------------------------------------------
\* analyze_seo.py: SEOAnalyzer
\* -------------------------------------------------------------------------
\* the keys of SEO_CHECKS, the checklist the report takes its descriptions from
SEO_CHECKS ==
  {"missing_title", "missing_description", "short_description", "long_description",
   "missing_keywords", "few_keywords", "many_keywords", "missing_structured_data",
   "missing_dates", "duplicate_title", "duplicate_description", "missing_alt_text",
   "no_internal_links", "few_internal_links", "no_headings", "long_paragraphs",
   "low_content_density"}

\* SEOAnalyzer.__init__: issues is a defaultdict(list), stats a
\* defaultdict(int), all_keywords a Counter; each holds only the keys touched.
SEOAnalyzer ==
  [issues |-> EmptyDict, stats |-> EmptyDict, titles |-> {}, descriptions |-> {},
   all_keywords |-> EmptyDict]

\* A faulty variant of Emit that sets the counter of the kind to 1 instead
\* of adding 1 to it; the counter property C20 must reject it.
EmitFlagging(self, file_path, kind) ==
  [self EXCEPT !.issues = Put(@, file_path, Append(GetOr(@, file_path, <<>>), kind)),
               !.stats = Put(@, kind, 1)]

\* self.issues[file_path].append(kind); self.stats[kind] += 1
Emit(self, file_path, kind) ==
  [self EXCEPT !.issues = Put(@, file_path, Append(GetOr(@, file_path, <<>>), kind)),
               !.stats = Put(@, kind, GetOr(@, kind, 0) + 1)]

\* how a group of checks ends: normally, or with an exception
Done(self) == [raised |-> FALSE, self |-> self]
Raised(self) == [raised |-> TRUE, self |-> self]

\* a value that can be a member of a set
Hashable(v) == v.t \notin {"list", "map"}

\* A faulty variant of CheckTitle that never remembers a title; the
\* duplicate-title property C7 must reject it.
CheckTitleForgetful(self, frontmatter, file_path) ==
  LET title == Get(frontmatter, "title")
  IN IF ~Truthy(title) THEN Done(Emit(self, file_path, "missing_title"))
     ELSE IF ~Hashable(title) THEN Raised(self)
     ELSE Done(IF title \in self.titles
               THEN Emit(self, file_path, "duplicate_title")
               ELSE self)

\* the title check; 'title in self.titles' raises TypeError for an unhashable
CheckTitle(self, frontmatter, file_path) ==
  LET title == Get(frontmatter, "title")
  IN IF ~Truthy(title) THEN Done(Emit(self, file_path, "missing_title"))
     ELSE IF ~Hashable(title) THEN Raised(self)
     ELSE LET flagged == IF title \in self.titles
                         THEN Emit(self, file_path, "duplicate_title")
                         ELSE self
          IN Done([flagged EXCEPT !.titles = @ \cup {title}])

AnalyzeMinDescription == 50
AnalyzeMaxDescription == 160

\* A faulty variant of CheckDescription whose lower bound is inclusive: a
\* description of exactly 50 characters is short; the bounds property C14
\* must reject it.
CheckDescriptionInclusive(self, frontmatter, file_path) ==
  LET description == Get(frontmatter, "description")
  IN IF ~Truthy(description) THEN Done(Emit(self, file_path, "missing_description"))
     ELSE IF description.t = "int" THEN Raised(self)
     ELSE LET sized == IF Length(description) <= AnalyzeMinDescription
                       THEN Emit(self, file_path, "short_description")
                       ELSE IF Length(description) > AnalyzeMaxDescription
                       THEN Emit(self, file_path, "long_description")
                       ELSE self
              flagged == IF description \in sized.descriptions
                         THEN Emit(sized, file_path, "duplicate_description")
                         ELSE sized
          IN IF ~Hashable(description) THEN Raised(sized)
             ELSE Done([flagged EXCEPT !.descriptions = @ \cup {description}])

\* A faulty variant of CheckDescription that takes a description for a
\* duplicate when a description seen before starts with it; the order
\* property C21 must reject it.
CheckDescriptionPrefix(self, frontmatter, file_path) ==
  LET description == Get(frontmatter, "description")
  IN IF ~Truthy(description) THEN Done(Emit(self, file_path, "missing_description"))
     ELSE IF description.t = "int" THEN Raised(self)
     ELSE LET sized == IF Length(description) < AnalyzeMinDescription
                       THEN Emit(self, file_path, "short_description")
                       ELSE IF Length(description) > AnalyzeMaxDescription
                       THEN Emit(self, file_path, "long_description")
                       ELSE self
              flagged == IF \E d \in sized.descriptions :
                              d.t = "str" /\ description.t = "str"
                              /\ StartsWith(d.c, description.c)
                         THEN Emit(sized, file_path, "duplicate_description")
                         ELSE sized
          IN IF ~Hashable(description) THEN Raised(sized)
             ELSE Done([flagged EXCEPT !.descriptions = @ \cup {description}])

\* the description check; len() raises TypeError for a number, and
\* 'description in self.descriptions' for an unhashable
CheckDescription(self, frontmatter, file_path) ==
  LET description == Get(frontmatter, "description")
  IN IF ~Truthy(description) THEN Done(Emit(self, file_path, "missing_description"))
     ELSE IF description.t = "int" THEN Raised(self)
     ELSE LET sized == IF Length(description) < AnalyzeMinDescription
                       THEN Emit(self, file_path, "short_description")
                       ELSE IF Length(description) > AnalyzeMaxDescription
                       THEN Emit(self, file_path, "long_description")
                       ELSE self
              flagged == IF description \in sized.descriptions
                         THEN Emit(sized, file_path, "duplicate_description")
                         ELSE sized
          IN IF ~Hashable(description) THEN Raised(sized)
             ELSE Done([flagged EXCEPT !.descriptions = @ \cup {description}])

\* for keyword in keywords: self.all_keywords[keyword] += 1
RECURSIVE Tally(_, _)
Tally(all_keywords, keywords) ==
  IF keywords = <<>> THEN all_keywords
  ELSE Tally(Put(all_keywords, Head(keywords), GetOr(all_keywords, Head(keywords), 0) + 1),
             Tail(keywords))

MinKeywordsCount == 3
MaxKeywordsCount == 10

\* A faulty variant of CheckKeywords that tallies the keywords only when
\* their count is within bounds; the tally property C15 must reject it.
CheckKeywordsTallyingGood(self, frontmatter, file_path) ==
  LET value == Get(frontmatter, "keywords")
  IN IF ~Truthy(value) THEN Done(Emit(self, file_path, "missing_keywords"))
     ELSE IF value.t # "str" THEN Raised(self)
     ELSE LET keywords == SplitKeywords(value.c)
          IN IF Len(keywords) < MinKeywordsCount
             THEN Done(Emit(self, file_path, "few_keywords"))
             ELSE IF Len(keywords) > MaxKeywordsCount
             THEN Done(Emit(self, file_path, "many_keywords"))
             ELSE Done([self EXCEPT !.all_keywords = Tally(@, keywords)])

\* the keywords check; frontmatter['keywords'].split(',') raises
\* AttributeError for a value that is no string
CheckKeywords(self, frontmatter, file_path) ==
  LET value == Get(frontmatter, "keywords")
  IN IF ~Truthy(value) THEN Done(Emit(self, file_path, "missing_keywords"))
     ELSE IF value.t # "str" THEN Raised(self)
     ELSE LET keywords == SplitKeywords(value.c)
              counted == IF Len(keywords) < MinKeywordsCount
                         THEN Emit(self, file_path, "few_keywords")
                         ELSE IF Len(keywords) > MaxKeywordsCount
                         THEN Emit(self, file_path, "many_keywords")
                         ELSE self
          IN Done([counted EXCEPT !.all_keywords = Tally(@, keywords)])

CheckStructuredData(self, frontmatter, file_path) ==
  IF ~Truthy(Get(frontmatter, "structuredData"))
  THEN Emit(self, file_path, "missing_structured_data")
  ELSE self

CheckDates(self, frontmatter, file_path) ==
  IF ~Truthy(Get(frontmatter, "datePublished")) \/ ~Truthy(Get(frontmatter, "dateModified"))
  THEN Emit(self, file_path, "missing_dates")
  ELSE self

\* A faulty variant of CheckAltText that records the issue for every image
\* with no alt text; the property C19 must reject it.
RECURSIVE EmitTimes(_, _, _, _)
EmitTimes(self, file_path, kind, n) ==
  IF n = 0 THEN self ELSE EmitTimes(Emit(self, file_path, kind), file_path, kind, n - 1)
CheckAltTextEach(self, content, file_path) ==
  EmitTimes(self, file_path, "missing_alt_text", CountIn(<<>>, ImageAlts(content, 1)))

CheckAltText(self, content, file_path) ==
  IF InSeq(<<>>, ImageAlts(content, 1))
  THEN Emit(self, file_path, "missing_alt_text")
  ELSE self

MinInternalLinks == 2

CheckInternalLinks(self, content, file_path) ==
  LET internal_links == CountInternalLinks(content, 1)
  IN IF internal_links = 0 THEN Emit(self, file_path, "no_internal_links")
     ELSE IF internal_links < MinInternalLinks
     THEN Emit(self, file_path, "few_internal_links")
     ELSE self

\* A faulty variant of CheckHeadings that records a kind of its own making;
\* the vocabulary property C12 must reject it.
CheckHeadingsMisnamed(self, content, file_path) ==
  IF ~HasHeadings(content) THEN Emit(self, file_path, "missing_headings") ELSE self

CheckHeadings(self, content, file_path) ==
  IF ~HasHeadings(content) THEN Emit(self, file_path, "no_headings") ELSE self

CheckParagraphs(self, content, file_path) ==
  IF HasLongParagraph(content) THEN Emit(self, file_path, "long_paragraphs") ELSE self

CheckDensity(self, content, file_path) ==
  IF LowContentDensity(content) THEN Emit(self, file_path, "low_content_density") ELSE self

\* the checks that follow the keywords check, none of which raises
CheckRest(self, frontmatter, content, file_path) ==
  CheckDensity(
    CheckParagraphs(
      CheckHeadings(
        CheckInternalLinks(
          CheckAltText(
            CheckDates(CheckStructuredData(self, frontmatter, file_path),
                       frontmatter, file_path),
            content, file_path),
          content, file_path),
        content, file_path),
      content, file_path),
    content, file_path)

\* A faulty variant of analyze_file that, having recorded a missing
\* front-block, goes on to the checks with empty metadata; the property C10
\* must reject it.
analyze_file_continuing(self, file, file_path) ==
  LET parsed == ParseFront(file)
  IN IF parsed.status = "invalid"
     THEN Done(Emit(self, file_path, "invalid_frontmatter"))
     ELSE IF parsed.v.t # "map" THEN Raised(self)
     ELSE LET frontmatter == parsed.v.m
              start == IF parsed.status = "missing"
                       THEN Emit(self, file_path, "missing_frontmatter")
                       ELSE self
              titled == CheckTitle(start, frontmatter, file_path)
              described == IF titled.raised THEN titled
                           ELSE CheckDescription(titled.self, frontmatter, file_path)
              keyworded == IF described.raised THEN described
                           ELSE CheckKeywords(described.self, frontmatter, file_path)
          IN IF keyworded.raised THEN keyworded
             ELSE Done(CheckRest(keyworded.self, frontmatter, parsed.body, file_path))

\* SEOAnalyzer.analyze_file(file_path): the analyzer afterwards, and whether
\* the call ended with an exception (the checks made before it have acted).
\* frontmatter.get raises AttributeError when the front-block is no mapping.
analyze_file(self, file, file_path) ==
  LET parsed == ParseFront(file)
  IN IF parsed.status = "missing" THEN Done(Emit(self, file_path, "missing_frontmatter"))
     ELSE IF parsed.status = "invalid"
     THEN Done(Emit(self, file_path, "invalid_frontmatter"))
     ELSE IF parsed.v.t # "map" THEN Raised(self)
     ELSE LET frontmatter == parsed.v.m
              titled == CheckTitle(self, frontmatter, file_path)
              described == IF titled.raised THEN titled
                           ELSE CheckDescription(titled.self, frontmatter, file_path)
              keyworded == IF described.raised THEN described
                           ELSE CheckKeywords(described.self, frontmatter, file_path)
          IN IF keyworded.raised THEN keyworded
             ELSE Done(CheckRest(keyworded.self, frontmatter, parsed.body, file_path))

\* -------------------------------------------------------------------------
\* The documents of the model.
\* -------------------------------------------------------------------------
Docs == <<"d", "o", "c", "s">>
PathTerm == <<Docs, DirShiShen, <<"bi", "jian", ".", "m", "d">> >>
PathBlog == <<Docs, <<"b", "l", "o", "g">>, <<"p", "o", "s", "t", ".", "m", "d">> >>
Paths == {PathTerm, PathBlog}

\* "# T1\n\n<ming li> <ba zi> <ming li> x\n\n## h\n\n[a](b) [c](d)\n"
BodyTitled ==
  <<"#", " ", "T", "1", "\n", "\n", "ming", "li", " ", "ba", "zi", " ", "ming", "li",
    " ", "x", "\n", "\n", "#", "#", " ", "h", "\n", "\n",
    "[", "a", "]", "(", "b", ")", " ", "[", "c", "]", "(", "d", ")", "\n">>
\* "**<ba zi>** text\n"
BodyPlain == <<"*", "*", "ba", "zi", "*", "*", " ", "t", "e", "x", "t", "\n">>

TextT2 == <<"T", "2">>
TextPub == <<"2", "0", "2", "0">>
TextDesc == <<"d", "e", "s", "c">>
TextFaq == <<"F", "A", "Q">>

\* no front-block
DocNone == File(FALSE, <<>>, BodyTitled)
\* an empty front-block
DocEmpty == File(TRUE, <<>>, BodyPlain)
\* every field authored
DocFull ==
  File(TRUE,
       << KvLine("title", StrV(TextT2)),
          KvLine("sidebar_position", IntV(2)),
          KvLine("description", StrV(TextDesc)),
          KvLine("keywords", StrV(<<"a", ",", " ", "b">>)),
          KvLine("author", StrV(<<"B", "o", "b">>)),
          KvLine("datePublished", StrV(TextPub)),
          KvLine("dateModified", StrV(<<"2", "0", "2", "1">>)),
          KvLine("structuredData", MapV([type |-> StrV(TextFaq), name |-> StrV(TextT2)])) >>,
       BodyTitled)
\* a title, a key that is no basic field, keywords as a list
DocList ==
  File(TRUE,
       << KvLine("title", StrV(TextT2)),
          KvLine("tags", ListV(<< <<"x">> >>)),
          KvLine("keywords", ListV(<< <<"a">>, <<"b">> >>)),
          KvLine("datePublished", StrV(TextPub)) >>,
       BodyPlain)
\* a front-block the YAML parser rejects
DocInvalid == File(TRUE, << KvLine("title", StrV(TextT2)), BadLine >>, BodyTitled)
\* a front-block that parses to a plain string
DocScalar == File(TRUE, << ScalarLine(TextDesc) >>, BodyPlain)
\* structuredData with no value, keywords a number
DocOdd ==
  File(TRUE,
       << KvLine("title", StrV(TextT2)),
          KvLine("keywords", IntV(7)),
          KvLine("structuredData", NoneV) >>,
       BodyPlain)

SampleDocs == {DocNone, DocEmpty, DocFull, DocList, DocInvalid, DocScalar, DocOdd}

\* the corpora a run may start from: any sample document beside a document
\* with no front-block, or two fully authored documents
Corpora ==
  {f \in [Paths -> SampleDocs] :
     f[PathBlog] = DocNone \/ (f[PathTerm] = DocFull /\ f[PathBlog] = DocFull)}

\* What the model API may give to the three calls of one enhance_frontmatter
\* (description, keywords, structured data): every call fails softly; every
\* call succeeds; a call raises and the JSON is no object; the JSON object has
\* no '@type'.
GptDescription == CallText(<<"g", "p", "t">>)
GptOutcomes ==
  { <<CallNone, CallNone, CallNone>>,
    <<GptDescription, CallText(<<" ", "k", ",", "ming", "li", ".">>),
      CallJson(MapV([x \in {"@type"} |-> StrV(TextFaq)]))>>,
    <<CallNone, CallRaise, CallJson(ListV(<< <<"x">> >>))>>,
    <<GptDescription, CallNone, CallJson(MapV([x \in {"name"} |-> StrV(TextT2)]))>> }

\* every assignment of a sample document to each path
AllCorpora == [Paths -> SampleDocs]

\* os.walk: the documents of the directory in some order, each once
Orders ==
  {o \in [1..Cardinality(Paths) -> Paths] : \A p \in Paths : \E i \in DOMAIN o : o[i] = p}

\* what the one model API call of a preview batch run may give
PreviewCalls == {CallRaise, CallNone, GptDescription}

\* -------------------------------------------------------------------------
\* State.
\* -------------------------------------------------------------------------
VARIABLES
  files,                \* path -> the document file
  clock,                \* the wall clock
  DEFAULT_FRONTMATTER,  \* the module-level dict of update_frontmatter.py
  nops,                 \* the number of synthesis calls made
  last,                 \* the latest synthesis call: its arguments and outcome
  analyzer,             \* the SEOAnalyzer object
  analyzed,             \* the analyze_file calls made, in order, with how each ended
  run                   \* the directory run: its loop position and its counters

vars == <<files, clock, DEFAULT_FRONTMATTER, nops, last, analyzer, analyzed, run>>

NoCall ==
  [op |-> "none", path |-> PathTerm, preview |-> FALSE, time |-> 0,
   before |-> DocNone, ret |-> "none", rec |-> NoRecord]

NoRun ==
  [kind |-> "none", preview |-> FALSE, todo |-> <<>>, done |-> <<>>,
   success_count |-> 0, error_count |-> 0, state |-> "idle"]

InitOn(corpora) ==
  /\ files \in corpora
  /\ clock = 0
  /\ DEFAULT_FRONTMATTER = DefaultFrontmatterAt(0)
  /\ nops = 0
  /\ last = NoCall
  /\ analyzer = SEOAnalyzer
  /\ analyzed = <<>>
  /\ run = NoRun

Init == InitOn(Corpora)

\* time passes
Tick ==
  /\ clock < MaxClock
  /\ clock' = clock + 1
  /\ UNCHANGED <<files, DEFAULT_FRONTMATTER, nops, last, analyzer, analyzed, run>>

\* -------------------------------------------------------------------------
\* The synthesis calls, one document at a time, in any interleaving.
\* -------------------------------------------------------------------------
UpdateFrontmatter(p, preview) ==
  /\ nops < MaxOps
  /\ LET out == update_frontmatter(files[p], p, preview, clock, DEFAULT_FRONTMATTER)
     IN /\ files' = [files EXCEPT ![p] = out.file]
        /\ DEFAULT_FRONTMATTER' = out.default
        /\ last' = [op |-> "update", path |-> p, preview |-> preview, time |-> clock,
                    before |-> files[p], ret |-> out.ret, rec |-> out.rec]
  /\ nops' = nops + 1
  /\ UNCHANGED <<clock, analyzer, analyzed, run>>

EnhanceFrontmatter(p, gDesc, gKw, gSD) ==
  /\ nops < MaxOps
  /\ LET out == enhance_frontmatter(files[p], clock, gDesc, gKw, gSD)
     IN /\ files' = [files EXCEPT ![p] = out.file]
        /\ last' = [op |-> "enhance", path |-> p, preview |-> FALSE, time |-> clock,
                    before |-> files[p], ret |-> out.ret, rec |-> NoRecord]
  /\ nops' = nops + 1
  /\ UNCHANGED <<clock, DEFAULT_FRONTMATTER, analyzer, analyzed, run>>

FixKeywordsInFile(p) ==
  /\ nops < MaxOps
  /\ LET out == fix_keywords_in_file(files[p])
     IN /\ files' = [files EXCEPT ![p] = out.file]
        /\ last' = [op |-> "fix", path |-> p, preview |-> FALSE, time |-> clock,
                    before |-> files[p], ret |-> out.ret, rec |-> NoRecord]
  /\ nops' = nops + 1
  /\ UNCHANGED <<clock, DEFAULT_FRONTMATTER, analyzer, analyzed, run>>

Next ==
  \/ Tick
  \/ \E p \in Paths, preview \in BOOLEAN : UpdateFrontmatter(p, preview)
  \/ \E p \in Paths, g \in GptOutcomes : EnhanceFrontmatter(p, g[1], g[2], g[3])
  \/ \E p \in Paths : FixKeywordsInFile(p)

Spec == Init /\ [][Next]_vars

\* -------------------------------------------------------------------------
\* One SEOAnalyzer given documents one at a time.
\* -------------------------------------------------------------------------
InitAnalyze == InitOn(AllCorpora)

AnalyzeFile(p) ==
  /\ Len(analyzed) < MaxAnalyze
  /\ LET out == analyze_file(analyzer, files[p], p)
     IN /\ analyzer' = out.self
        /\ analyzed' = Append(analyzed, [path |-> p, raised |-> out.raised])
  /\ UNCHANGED <<files, clock, DEFAULT_FRONTMATTER, nops, last, run>>

NextAnalyze == \E p \in Paths : AnalyzeFile(p)

SpecAnalyze == InitAnalyze /\ [][NextAnalyze]_vars

\* -------------------------------------------------------------------------
\* One SEOAnalyzer given documents at the thresholds of its checks.
\* -------------------------------------------------------------------------
\* n keywords "k1, k2, ..., k9, k0, k1": the eleventh repeats the first
KeywordText(n) == Join(<<",", " ">>, [i \in 1..n |-> <<"k">> \o Digits(i % 10)])

\* a document with a description of len characters, n keywords and a body
DocSized(len, n, body) ==
  File(TRUE,
       << KvLine("title", StrV(TextT2)),
          KvLine("description", StrV([i \in 1..len |-> "d"])),
          KvLine("keywords", StrV(KeywordText(n))),
          KvLine("datePublished", StrV(TextPub)),
          KvLine("dateModified", StrV(TextPub)),
          KvLine("structuredData", MapV([type |-> StrV(TextFaq)])) >>,
       body)

\* "## h\n\n[a](b)\n"
BodyOneLink == <<"#", "#", " ", "h", "\n", "\n", "[", "a", "]", "(", "b", ")", "\n">>
\* "[a](b) [c](http://x)\n": an internal link, then an external one
BodyMixed ==
  <<"[", "a", "]", "(", "b", ")", " ",
    "[", "c", "]", "(", "h", "t", "t", "p", ":", "/", "/", "x", ")", "\n">>
\* two images with no alt text, then two paragraphs of 301 characters
BodyFlawed ==
  <<"!", "[", "]", "(", "a", ")", " ", "!", "[", "]", "(", "b", ")", "\n", "\n">>
  \o [i \in 1..(MaxParagraphLength + 1) |-> "x"] \o <<"\n", "\n">>
  \o [i \in 1..(MaxParagraphLength + 1) |-> "y"] \o <<"\n">>

\* descriptions of 49, 50, 160 and 161 characters; 2, 3, 10 and 11 keywords;
\* bodies with no link, one link, two links, a link before an external link,
\* and repeated flaws
ThresholdDocs ==
  {DocSized(len, MinKeywordsCount, BodyTitled) :
     len \in {AnalyzeMinDescription - 1, AnalyzeMinDescription,
              AnalyzeMaxDescription, AnalyzeMaxDescription + 1}}
  \cup {DocSized(AnalyzeMinDescription, n, BodyTitled) :
          n \in {MinKeywordsCount - 1, MaxKeywordsCount, MaxKeywordsCount + 1}}
  \cup {DocSized(AnalyzeMinDescription, MinKeywordsCount, body) :
          body \in {BodyPlain, BodyOneLink, BodyMixed, BodyFlawed}}

InitThresholds == InitOn([Paths -> ThresholdDocs])

SpecThresholds == InitThresholds /\ [][NextAnalyze]_vars

\* -------------------------------------------------------------------------
\* update_frontmatter over documents in a glossary directory (a term page
\* and the introduction page), in a second glossary directory and in a
\* directory of no table, with bodies that have words to extract.
\* -------------------------------------------------------------------------
PathIntro == <<Docs, DirShiShen, <<"shi", "shen">> \o IntroSuffix>>
PathStem == <<Docs, DirTianGan, <<"j", "i", "a", ".", "m", "d">> >>
SynthesisPaths == {PathTerm, PathIntro, PathStem, PathBlog}

\* the words, in order: <ji xiong>, <bi jian>, <ming li>, <shu yu>,
\* <bi jian>, <gan zhi>, <ming li>, <shu yu>, <bi jian>, <jie shao>, <qi ta>
BodyRich ==
  <<"#", " ", "ji", "xiong", "\n", "\n",
    "bi", "jian", " ", "ming", "li", " ", "shu", "yu", ",", "bi", "jian", " ",
    "gan", "zhi", "\n", "\n",
    "ming", "li", " ", "shu", "yu", " ", "bi", "jian", ".", "jie", "shao", " ",
    "qi", "ta", "\n">>
\* the words, in order: <xing yun>, <bi jian>, <shu yu>, <ji xiong>,
\* <shu yu>, <bi jian>, <jie shao>, <qi ta>; a run of seven characters is cut
\* into <zhong guo chuan tong wen> and <hua xue>
BodyDense ==
  <<"xing", "yun", " ", "bi", "jian", " ", "shu", "yu", " ", "ji", "xiong", "\n",
    "shu", "yu", " ", "bi", "jian", " ", "jie", "shao", " ", "qi", "ta", " ", "x", "\n",
    "zhong", "guo", "chuan", "tong", "wen", "hua", "xue", "\n">>

\* an empty front-block; no front-block; every field authored; keywords
\* empty and structuredData with no type
SynthesisDocs ==
  { File(TRUE, <<>>, BodyRich),
    File(FALSE, <<>>, BodyDense),
    DocFull,
    File(TRUE,
         << KvLine("title", StrV(TextT2)),
            KvLine("keywords", StrV(<<>>)),
            KvLine("structuredData", MapV([name |-> StrV(TextT2)])) >>,
         BodyDense) }

InitSynthesis ==
  /\ files \in {[p \in SynthesisPaths |-> doc] : doc \in SynthesisDocs}
  /\ clock = 0
  /\ DEFAULT_FRONTMATTER = DefaultFrontmatterAt(0)
  /\ nops = 0
  /\ last = NoCall
  /\ analyzer = SEOAnalyzer
  /\ analyzed = <<>>
  /\ run = NoRun

NextSynthesis == \E p \in SynthesisPaths, preview \in BOOLEAN : UpdateFrontmatter(p, preview)

SpecSynthesis == InitSynthesis /\ [][NextSynthesis]_vars

\* -------------------------------------------------------------------------
\* The directory runs: the loop over the .md files of os.walk, a step per
\* file, then the summary.  An exception that no handler of the loop catches
\* ends the run where it is ("aborted").
\* -------------------------------------------------------------------------
RunKinds == {"analyze_directory", "process_directory", "fix_keywords_in_directory",
             "batch_enhance_directory"}

\* only process_directory and batch_enhance_directory have a preview mode
StartRun(kind, preview, order) ==
  /\ run.state = "idle"
  /\ preview => kind \in {"process_directory", "batch_enhance_directory"}
  /\ run' = [kind |-> kind, preview |-> preview, todo |-> order, done |-> <<>>,
             success_count |-> 0, error_count |-> 0, state |-> "walking"]
  /\ UNCHANGED <<files, clock, DEFAULT_FRONTMATTER, nops, last, analyzer, analyzed>>

Walking(kind) == run.kind = kind /\ run.state = "walking" /\ run.todo # <<>>

\* the loop variables after the file at the head of the walk is dealt with
Stepped(success, error) ==
  [run EXCEPT !.todo = Tail(@), !.done = Append(@, Head(run.todo)),
              !.success_count = @ + success, !.error_count = @ + error]

\* analyze_directory: self.analyze_file(file_path), no handler
AnalyzeDirectoryStep ==
  /\ Walking("analyze_directory")
  /\ LET p == Head(run.todo)
         out == analyze_file(analyzer, files[p], p)
     IN /\ analyzer' = out.self
        /\ analyzed' = Append(analyzed, [path |-> p, raised |-> out.raised])
        /\ run' = IF out.raised THEN [run EXCEPT !.state = "aborted"] ELSE Stepped(0, 0)
  /\ UNCHANGED <<files, clock, DEFAULT_FRONTMATTER, nops, last>>

\* process_directory: a True counts as a success, an exception as an error
ProcessDirectoryStep ==
  /\ Walking("process_directory")
  /\ LET p == Head(run.todo)
         out == update_frontmatter(files[p], p, run.preview, clock, DEFAULT_FRONTMATTER)
     IN /\ files' = [files EXCEPT ![p] = out.file]
        /\ DEFAULT_FRONTMATTER' = out.default
        /\ last' = [op |-> "update", path |-> p, preview |-> run.preview, time |-> clock,
                    before |-> files[p], ret |-> out.ret, rec |-> out.rec]
        /\ run' = Stepped(IF out.ret = "True" THEN 1 ELSE 0,
                          IF out.ret = "raised" THEN 1 ELSE 0)
  /\ UNCHANGED <<clock, nops, analyzer, analyzed>>

\* fix_keywords_in_directory: a False and an exception both count as an error
FixKeywordsDirectoryStep ==
  /\ Walking("fix_keywords_in_directory")
  /\ LET p == Head(run.todo)
         out == fix_keywords_in_file(files[p])
     IN /\ files' = [files EXCEPT ![p] = out.file]
        /\ last' = [op |-> "fix", path |-> p, preview |-> FALSE, time |-> clock,
                    before |-> files[p], ret |-> out.ret, rec |-> NoRecord]
        /\ run' = Stepped(IF out.ret = "True" THEN 1 ELSE 0,
                          IF out.ret = "True" THEN 0 ELSE 1)
  /\ UNCHANGED <<clock, DEFAULT_FRONTMATTER, nops, analyzer, analyzed>>

\* batch_enhance_directory(directory, preview=False)
BatchEnhanceStep(gDesc, gKw, gSD) ==
  /\ Walking("batch_enhance_directory")
  /\ ~run.preview
  /\ LET p == Head(run.todo)
         out == enhance_frontmatter(files[p], clock, gDesc, gKw, gSD)
     IN /\ files' = [files EXCEPT ![p] = out.file]
        /\ last' = [op |-> "enhance", path |-> p, preview |-> FALSE, time |-> clock,
                    before |-> files[p], ret |-> out.ret, rec |-> NoRecord]
        /\ run' = Stepped(IF out.ret = "True" THEN 1 ELSE 0,
                          IF out.ret = "True" THEN 0 ELSE 1)
  /\ UNCHANGED <<clock, DEFAULT_FRONTMATTER, nops, analyzer, analyzed>>

\* batch_enhance_directory(directory, preview=True): analyze_content_for_seo
\* is called outside any handler
BatchPreviewStep(call) ==
  /\ Walking("batch_enhance_directory")
  /\ run.preview
  /\ run' = IF call.k = "raise" THEN [run EXCEPT !.state = "aborted"] ELSE Stepped(0, 0)
  /\ UNCHANGED <<files, clock, DEFAULT_FRONTMATTER, nops, last, analyzer, analyzed>>

\* the loop is over: the summary line, or generate_report for the analysis
FinishRun ==
  /\ run.state = "walking"
  /\ run.todo = <<>>
  /\ run' = [run EXCEPT !.state = "reported"]
  /\ UNCHANGED <<files, clock, DEFAULT_FRONTMATTER, nops, last, analyzer, analyzed>>

NextRun ==
  \/ Tick
  \/ \E kind \in RunKinds, preview \in BOOLEAN, order \in Orders : StartRun(kind, preview, order)
  \/ AnalyzeDirectoryStep
  \/ ProcessDirectoryStep
  \/ FixKeywordsDirectoryStep
  \/ \E g \in GptOutcomes : BatchEnhanceStep(g[1], g[2], g[3])
  \/ \E call \in PreviewCalls : BatchPreviewStep(call)
  \/ FinishRun

SpecRun == Init /\ [][NextRun]_vars

\* -------------------------------------------------------------------------
\* Properties of the synthesis calls (Spec).
\* -------------------------------------------------------------------------
\* the front-block of a file is a mapping, and the mapping
HasMetadata(file) == ParseFront(file).status = "ok" /\ ParseFront(file).v.t = "map"
Metadata(file) == IF HasMetadata(file) THEN ParseFront(file).v.m ELSE EmptyDict

\* the latest call was update_frontmatter and built a record
UpdatePassed == last.op = "update" /\ last.ret = "True"

\* C1: a non-preview update_frontmatter pass that directly follows a
\* non-preview pass on the same document (so it reads that pass's written
\* output) builds a record equal to the first pass's record in every field
\* other than dateModified.
C1_Idempotent ==
  [][(/\ UpdatePassed /\ ~last.preview
      /\ nops' = nops + 1
      /\ last'.op = "update" /\ ~last'.preview /\ last'.path = last.path)
     => (/\ last'.ret = "True"
         /\ Without(last'.rec, "dateModified") = Without(last.rec, "dateModified"))]_vars

\* a second pass, at a later time, over the output a first pass wrote at time 0
C1_Witness ==
  /\ UpdatePassed /\ ~last.preview
  /\ last.time = 1
  /\ nops >= 2
  /\ HasMetadata(last.before)
  /\ Get(Metadata(last.before), "dateModified") = StrV(Stamp(0))
  /\ Get(Metadata(last.before), "author") = StrV(DefaultAuthor)
  /\ Without(last.rec, "dateModified") = Without(Metadata(last.before), "dateModified")

\* C2: every update_frontmatter pass that builds a record sets its
\* dateModified to the timestamp of the pass.
C2_Refreshed ==
  UpdatePassed => last.rec["dateModified"] = StrV(Stamp(last.time))

\* C3: when the existing metadata has a non-empty author, the record built by
\* update_frontmatter carries that author; the default author is written only
\* when there is none.
C3_AuthorWins ==
  (UpdatePassed /\ Truthy(Get(Metadata(last.before), "author")))
  => last.rec["author"] = Metadata(last.before)["author"]

\* C4: no step of update_frontmatter, enhance_frontmatter or
\* fix_keywords_in_file, in any interleaving, changes a non-empty
\* datePublished of a document: the file keeps a mapping front-block with the
\* same datePublished.
C4_PublishedKept ==
  [][\A p \in Paths :
       LET before == ParseFront(files[p])
           after == ParseFront(files'[p])
       IN (/\ before.status = "ok" /\ before.v.t = "map"
           /\ Truthy(Get(before.v.m, "datePublished")))
          => (/\ after.status = "ok" /\ after.v.t = "map"
              /\ Get(after.v.m, "datePublished") = before.v.m["datePublished"])]_vars

\* three calls made, the latest an enhance_frontmatter at time 1 that rewrote
\* a document whose datePublished was authored
C4_Witness ==
  /\ nops = MaxOps
  /\ last.op = "enhance" /\ last.ret = "True" /\ last.time = 1
  /\ files[last.path] # last.before
  /\ Get(Metadata(last.before), "datePublished") = StrV(TextPub)
  /\ Get(Metadata(files[last.path]), "datePublished") = StrV(TextPub)
  /\ Get(Metadata(files[last.path]), "dateModified") = StrV(Stamp(1))

\* C5: when the document has no datePublished, update_frontmatter sets it to
\* the timestamp of the pass, the instant it writes as dateModified.
C5_PublishedNow ==
  (UpdatePassed /\ ~Truthy(Get(Metadata(last.before), "datePublished")))
  => last.rec["datePublished"] = StrV(Stamp(last.time))

IssuesOf(self, p) == GetOr(self.issues, p, <<>>)

\* the non-empty title string of a document, NoneV when it has none
TitleOf(file) ==
  LET title == Get(Metadata(file), "title")
  IN IF title.t = "str" /\ Truthy(title) THEN title ELSE NoneV

\* this step is an analyze_file call on p
Analysing(p) ==
  /\ Len(analyzed') = Len(analyzed) + 1
  /\ analyzed'[Len(analyzed')].path = p

\* C7: an analyze_file call on a document with a non-empty title string adds
\* duplicate_title to that document's list when another document with the
\* identical title was analyzed before it, leaves the list free of it when no
\* document with that title was analyzed before, and changes the issue list
\* of no other document (no retroactive flagging).
C7_DuplicateTitle ==
  [][\A p \in Paths :
       (Analysing(p) /\ TitleOf(files[p]) # NoneV) =>
         LET title == TitleOf(files[p])
             seen == \E i \in 1..Len(analyzed) :
                       analyzed[i].path # p /\ TitleOf(files[analyzed[i].path]) = title
             fresh == \A i \in 1..Len(analyzed) :
                        TitleOf(files[analyzed[i].path]) # title
         IN /\ seen => InSeq("duplicate_title", IssuesOf(analyzer', p))
            /\ fresh => ~InSeq("duplicate_title", IssuesOf(analyzer', p))
            /\ \A q \in Paths \ {p} : IssuesOf(analyzer', q) = IssuesOf(analyzer, q)]_vars

\* two documents with the same title analyzed in sequence, then a later call:
\* the second is flagged, the first still is not
C7_Witness ==
  /\ Len(analyzed) = 3
  /\ analyzed[1].path = PathTerm /\ analyzed[2].path = PathBlog /\ analyzed[3].path = PathBlog
  /\ TitleOf(files[PathTerm]) # NoneV
  /\ TitleOf(files[PathTerm]) = TitleOf(files[PathBlog])
  /\ InSeq("duplicate_title", IssuesOf(analyzer, PathBlog))
  /\ ~InSeq("duplicate_title", IssuesOf(analyzer, PathTerm))

\* C8: analyze_file on a document whose keywords are a non-empty list of
\* strings (and whose title and description are strings or absent) ends
\* normally, has tallied every element of the list, and has recorded
\* few_keywords exactly when the list has fewer than three elements.
C8_ListKeywordsAccepted ==
  \A i \in 1..Len(analyzed) :
    LET p == analyzed[i].path
        metadata == Metadata(files[p])
        keywords == Get(metadata, "keywords")
    IN (/\ HasMetadata(files[p])
        /\ keywords.t = "list" /\ Truthy(keywords)
        /\ Get(metadata, "title").t \in {"str", "null"}
        /\ Get(metadata, "description").t \in {"str", "null"})
       => /\ ~analyzed[i].raised
          /\ \A j \in 1..Len(keywords.l) : keywords.l[j] \in DOMAIN analyzer.all_keywords
          /\ InSeq("few_keywords", IssuesOf(analyzer, p)) <=> Len(keywords.l) < MinKeywordsCount

\* C9: a directory run never stops with documents of the traversal left
\* unprocessed: no failure on one document ends the run before its summary.
C9_RunNeverAborts == run.state # "aborted"

\* C10: an analyze_file call on a document whose front-block is absent or
\* malformed ends normally, appends the one issue of that kind to the
\* document's list, increments that kind's counter alone, and leaves every
\* other list, the seen titles, the seen descriptions and the keyword tally
\* as they were.
C10_ParserFailureOnly ==
  [][\A p \in Paths :
       (Analysing(p) /\ ParseFront(files[p]).status \in {"missing", "invalid"}) =>
         LET kind == IF ParseFront(files[p]).status = "missing"
                     THEN "missing_frontmatter" ELSE "invalid_frontmatter"
         IN /\ ~analyzed'[Len(analyzed')].raised
            /\ analyzer'.issues = Put(analyzer.issues, p, Append(IssuesOf(analyzer, p), kind))
            /\ analyzer'.stats = Put(analyzer.stats, kind, GetOr(analyzer.stats, kind, 0) + 1)
            /\ analyzer'.titles = analyzer.titles
            /\ analyzer'.descriptions = analyzer.descriptions
            /\ analyzer'.all_keywords = analyzer.all_keywords]_vars

\* after a document with a title and keywords, a document with no front-block
\* was analyzed: one issue for it, and the title and the tally still there
C10_Witness ==
  /\ Len(analyzed) = 2
  /\ ParseFront(files[analyzed[2].path]).status = "missing"
  /\ IssuesOf(analyzer, analyzed[2].path) = <<"missing_frontmatter">>
  /\ GetOr(analyzer.stats, "missing_frontmatter", 0) = 1
  /\ analyzer.titles # {}
  /\ DOMAIN analyzer.all_keywords # {}

\* the front-block of a file is delimited and parses, but to no mapping
NonMapping(file) == ParseFront(file).status = "ok" /\ ParseFront(file).v.t # "map"

\* C11: a document whose front-block is delimited but parses to no key-value
\* mapping is reported as invalid_frontmatter by analyze_file, which ends
\* normally, and is skipped by update_frontmatter, which returns False with
\* no record and the file as it was.
C11_NonMappingReported ==
  /\ \A i \in 1..Len(analyzed) :
       NonMapping(files[analyzed[i].path])
       => (/\ ~analyzed[i].raised
           /\ InSeq("invalid_frontmatter", IssuesOf(analyzer, analyzed[i].path)))
  /\ (last.op = "update" /\ NonMapping(last.before))
     => (last.ret = "False" /\ last.rec = NoRecord /\ files[last.path] = last.before)

\* every issue kind the analyzer holds: in an issue list or as a counter key
KindsHeld(self) ==
  DOMAIN self.stats \cup
  UNION {{self.issues[p][i] : i \in 1..Len(self.issues[p])} : p \in DOMAIN self.issues}

\* the two kinds analyze_file records for a front-block it cannot use
ParserKinds == {"missing_frontmatter", "invalid_frontmatter"}

\* C12 as stated: every issue kind in an issue list and every key of the
\* per-kind counter is one of the 17 keys of SEO_CHECKS.
C12_KindsInChecklist == KindsHeld(analyzer) \subseteq SEO_CHECKS

\* C12 amended: every issue kind in an issue list and every key of the
\* per-kind counter is one of 19 kinds: the 17 keys of SEO_CHECKS, or
\* missing_frontmatter or invalid_frontmatter, which are not keys of it.
C12_KindsInVocabulary ==
  /\ KindsHeld(analyzer) \subseteq SEO_CHECKS \cup ParserKinds
  /\ Cardinality(SEO_CHECKS) = 17
  /\ SEO_CHECKS \cap ParserKinds = {}

\* a parser kind and several kinds of the checklist recorded by one analyzer
C12_Witness ==
  /\ "missing_frontmatter" \in KindsHeld(analyzer)
  /\ {"no_headings", "missing_description", "missing_dates", "low_content_density"}
       \subseteq KindsHeld(analyzer)
  /\ DOMAIN analyzer.stats = KindsHeld(analyzer)

\* C13: an enhance_frontmatter call on a document with mapping metadata in
\* which a model API call fails (returns nothing, or raises) still completes,
\* and the file it writes has each of description, keywords and
\* structuredData.type that the document lacked and the failed call was to
\* supply filled with the heuristic value update_frontmatter would give it.
C13_FallsBackToHeuristics ==
  [][\A p \in Paths, g \in GptOutcomes :
       LET before == Metadata(files[p])
           after == Metadata(files'[p])
           body == ParseFront(files[p]).body
           failed(call) == call.k \in {"none", "raise"}
       IN (/\ EnhanceFrontmatter(p, g[1], g[2], g[3])
           /\ HasMetadata(files[p])
           /\ \E i \in 1..3 : failed(g[i]))
          => /\ last'.ret = "True"
             /\ HasMetadata(files'[p])
             /\ (~Truthy(Get(before, "description")) /\ failed(g[1]))
                => Get(after, "description") = NewDescription(before, body)
             /\ (~Truthy(Get(before, "keywords")) /\ failed(g[2]))
                => Get(after, "keywords") = NewKeywords(before, body, p)
             /\ (~Truthy(Get(before, "structuredData")) /\ failed(g[3]))
                => Get(Get(after, "structuredData").m, "type")
                     = StrV(get_structured_data_type(p))]_vars

\* -------------------------------------------------------------------------
\* Properties of the analyzer at the thresholds of its checks (SpecThresholds).
\* -------------------------------------------------------------------------
\* the keywords of a document as analyze_file splits them
KeywordsOf(file) == SplitKeywords(Get(Metadata(file), "keywords").c)

\* C14: for every analyzed document with a non-empty description of length
\* L, short_description is in its issue list iff L < 50 and long_description
\* iff L > 160, and never both.
C14_DescriptionBounds ==
  \A i \in 1..Len(analyzed) :
    LET p == analyzed[i].path
        description == Get(Metadata(files[p]), "description")
        short == InSeq("short_description", IssuesOf(analyzer, p))
        long == InSeq("long_description", IssuesOf(analyzer, p))
    IN (description.t = "str" /\ Truthy(description))
       => /\ short <=> Len(description.c) < 50
          /\ long <=> Len(description.c) > 160
          /\ ~(short /\ long)

\* descriptions of 49 and of 161 characters analyzed: one short, one long
C14_Witness ==
  /\ Len(analyzed) >= 2
  /\ Len(Get(Metadata(files[PathTerm]), "description").c) = 49
  /\ Len(Get(Metadata(files[PathBlog]), "description").c) = 161
  /\ InSeq("short_description", IssuesOf(analyzer, PathTerm))
  /\ InSeq("long_description", IssuesOf(analyzer, PathBlog))

\* C15: for every analyzed document with non-empty keywords that split on
\* commas into n trimmed tokens, few_keywords is in its issue list iff n < 3
\* and many_keywords iff n > 10; and the tally of every keyword is the number
\* of its occurrences among the tokens of all the analyze_file calls made,
\* whichever count issue fired.
C15_KeywordBounds ==
  \A keywords \in {[p \in Paths |-> KeywordsOf(files[p])]} :
    \A tokens \in {{t \in (1..Len(analyzed)) \X (1..(MaxKeywordsCount + 1)) :
                      t[2] <= Len(keywords[analyzed[t[1]].path])}} :
      LET token(t) == keywords[analyzed[t[1]].path][t[2]]
      IN /\ \A i \in 1..Len(analyzed) :
              LET p == analyzed[i].path
              IN /\ InSeq("few_keywords", IssuesOf(analyzer, p)) <=> Len(keywords[p]) < 3
                 /\ InSeq("many_keywords", IssuesOf(analyzer, p)) <=> Len(keywords[p]) > 10
         /\ DOMAIN analyzer.all_keywords = {token(t) : t \in tokens}
         /\ \A k \in DOMAIN analyzer.all_keywords :
              analyzer.all_keywords[k] = Cardinality({t \in tokens : token(t) = k})

\* two and eleven keywords analyzed: few and many, and all thirteen tallied,
\* the repeated one three times
C15_Witness ==
  /\ Len(analyzed) = 2 /\ analyzed[1].path # analyzed[2].path
  /\ Len(KeywordsOf(files[PathTerm])) = 2
  /\ Len(KeywordsOf(files[PathBlog])) = 11
  /\ InSeq("few_keywords", IssuesOf(analyzer, PathTerm))
  /\ InSeq("many_keywords", IssuesOf(analyzer, PathBlog))
  /\ GetOr(analyzer.all_keywords, <<"k", "1">>, 0) = 3
  /\ GetOr(analyzer.all_keywords, <<"k", "0">>, 0) = 1

\* -------------------------------------------------------------------------
\* Properties of update_frontmatter over the glossary (SpecSynthesis).
\* -------------------------------------------------------------------------
\* structuredData.type of a mapping, NoneV when there is none
TypeOf(metadata) ==
  LET sd == Get(metadata, "structuredData")
  IN IF sd.t = "map" THEN Get(sd.m, "type") ELSE NoneV

\* C16: the record update_frontmatter builds keeps an existing non-empty
\* structuredData.type; when there is none, the type is DefinedTerm iff the
\* parent directory of the document is a glossary directory and its file name
\* does not end with the introduction suffix, and Article otherwise.
C16_Classification ==
  UpdatePassed =>
    LET old == TypeOf(Metadata(last.before))
        new == TypeOf(last.rec)
        term == /\ DirName(last.path) \in GlossaryDirs
                /\ ~EndsWith(FileName(last.path), IntroSuffix)
    IN IF Truthy(old) THEN new = old
       ELSE new = StrV(IF term
                       THEN <<"D", "e", "f", "i", "n", "e", "d", "T", "e", "r", "m">>
                       ELSE <<"A", "r", "t", "i", "c", "l", "e">>)

\* the introduction page of a glossary directory classified as an article,
\* after a term page of the same directory was written as a defined term
C16_Witness ==
  /\ UpdatePassed /\ last.path = PathIntro
  /\ ~Truthy(TypeOf(Metadata(last.before)))
  /\ TypeOf(last.rec) = StrV(<<"A", "r", "t", "i", "c", "l", "e">>)
  /\ TypeOf(Metadata(files[PathTerm]))
       = StrV(<<"D", "e", "f", "i", "n", "e", "d", "T", "e", "r", "m">>)

\* C17: when the document has no keywords, the keywords update_frontmatter
\* synthesizes are at most 10, no keyword twice; they begin with the seed
\* list of the directory (the default triple for a directory of no table);
\* what follows the seeds are words of the body that are among its 5 first
\* by descending frequency, ties in first-seen order, in that order, and a
\* word among those 5 is left out only if it is a seed or has no room within
\* the 10.
C17_KeywordSynthesis ==
  (UpdatePassed /\ ~Truthy(Get(Metadata(last.before), "keywords"))) =>
    \A kws \in {SplitKeywords(last.rec["keywords"].c)} :
    \A words \in {ChineseWords(ParseFront(last.before).body, 1)} :
      LET seeds == IF DirName(last.path) \in GlossaryDirs
                   THEN DIRECTORY_KEYWORDS(DirName(last.path))
                   ELSE <<KwMingLi, KwBaZi, KwCulture>>
          first(w) == CHOOSE i \in 1..Len(words) :
                        words[i] = w /\ \A j \in 1..(i - 1) : words[j] # w
          before(v, w) == \/ CountIn(v, words) > CountIn(w, words)
                          \/ CountIn(v, words) = CountIn(w, words) /\ first(v) < first(w)
          distinct == {words[i] : i \in 1..Len(words)}
          top == {w \in distinct : Cardinality({v \in distinct : before(v, w)}) < 5}
          content == SubSeq(kws, Len(seeds) + 1, Len(kws))
      IN /\ Len(kws) <= 10
         /\ \A i, j \in 1..Len(kws) : i # j => kws[i] # kws[j]
         /\ SubSeq(kws, 1, Len(seeds)) = seeds
         /\ Len(content) <= 5
         /\ \A i \in 1..Len(content) : content[i] \in top
         /\ \A i, j \in 1..Len(content) : i < j => before(content[i], content[j])
         /\ \A w \in top :
              \/ InSeq(w, kws)
              \/ Len(kws) = 10 /\ \A i \in 1..Len(content) : before(content[i], w)

\* six seeds and five words of the body: the tenth keyword is the fourth word
\* by frequency, and the fifth had no room
C17_Witness ==
  /\ UpdatePassed /\ last.path = PathStem
  /\ ~Truthy(Get(Metadata(last.before), "keywords"))
  /\ LET kws == SplitKeywords(last.rec["keywords"].c)
     IN /\ Len(kws) = 10
        /\ kws[1] = DirTianGan
        /\ kws[7] = <<"bi", "jian">> /\ kws[8] = <<"shu", "yu">>
        /\ kws[9] = <<"xing", "yun">> /\ kws[10] = <<"ji", "xiong">>

\* -------------------------------------------------------------------------
\* Properties of the body checks and of the issue lists.
\* -------------------------------------------------------------------------
\* the Markdown link references [text](target) of a body whose target does
\* not start with http, each named by the index of its "]("
MarkdownLinks(s) ==
  {j \in 2..(Len(s) - 2) :
     /\ s[j] = "]" /\ s[j + 1] = "(" /\ s[j - 1] \notin {"[", "]"}
     /\ \E i \in 1..(j - 1) : s[i] = "[" /\ \A k \in (i + 1)..(j - 1) : s[k] # "]"
     /\ s[j + 2] # ")" /\ \E k \in (j + 3)..Len(s) : s[k] = ")"
     /\ ~StartsAt(s, j + 2, Http)}

\* C18: for every document analyzed to the end, the number of internal links
\* analyze_file counts in its body is the number of its Markdown link
\* references whose target does not start with http, whatever follows them on
\* their line; no_internal_links is in its issue list iff that number is 0
\* and few_internal_links iff it is 1.
C18_InternalLinks ==
  \A i \in 1..Len(analyzed) :
    \A body \in {ParseFront(files[analyzed[i].path]).body} :
      LET issues == IssuesOf(analyzer, analyzed[i].path)
          n == Cardinality(MarkdownLinks(body))
      IN (HasMetadata(files[analyzed[i].path]) /\ ~analyzed[i].raised)
         => /\ CountInternalLinks(body, 1) = n
            /\ InSeq("no_internal_links", issues) <=> n = 0
            /\ InSeq("few_internal_links", issues) <=> n = 1

\* the number of analyze_file calls made on a path
TimesAnalyzed(p) == Cardinality({i \in 1..Len(analyzed) : analyzed[i].path = p})

\* C19 as stated: every issue list holds any given kind at most once, after
\* any sequence of analyze_file calls, calls on the same path included.
C19_KindAtMostOnce ==
  \A p \in Paths, kind \in SEO_CHECKS \cup ParserKinds :
    CountIn(kind, IssuesOf(analyzer, p)) <= 1

\* C19 amended: every issue list holds any given kind at most once for each
\* analyze_file call made on its document: at most once when the document
\* was analyzed once (missing_alt_text and long_paragraphs too, whatever the
\* number of images and paragraphs at fault), at most n times after n calls.
C19_KindAtMostOncePerCall ==
  \A p \in Paths, kind \in SEO_CHECKS \cup ParserKinds :
    CountIn(kind, IssuesOf(analyzer, p)) <= TimesAnalyzed(p)

\* a document with two images without alt text and two long paragraphs,
\* analyzed once, has each issue once; the other document, analyzed twice,
\* has an issue twice
C19_Witness ==
  /\ ParseFront(files[PathTerm]).body = BodyFlawed
  /\ TimesAnalyzed(PathTerm) = 1 /\ TimesAnalyzed(PathBlog) = 2
  /\ CountIn("missing_alt_text", IssuesOf(analyzer, PathTerm)) = 1
  /\ CountIn("long_paragraphs", IssuesOf(analyzer, PathTerm)) = 1
  /\ \E kind \in SEO_CHECKS : CountIn(kind, IssuesOf(analyzer, PathBlog)) = 2

\* the entries of the issue lists: a path and an index in its list
Entries(self) ==
  UNION {{<<p, i>> : i \in 1..Len(self.issues[p])} : p \in DOMAIN self.issues}

\* C20: after any sequence of analyze_file calls, calls that ended with an
\* exception included, the counter of every issue kind is the number of
\* occurrences of the kind over all the issue lists, a kind has a counter
\* iff it occurs, and the counters add up to the lengths of the lists.
C20_CountersConsistent ==
  \A entries \in {Entries(analyzer)} :
    /\ \A kind \in SEO_CHECKS \cup ParserKinds \cup DOMAIN analyzer.stats :
         GetOr(analyzer.stats, kind, 0)
           = Cardinality({e \in entries : analyzer.issues[e[1]][e[2]] = kind})
    /\ Cardinality(UNION {{<<kind, n>> : n \in 1..analyzer.stats[kind]} :
                            kind \in DOMAIN analyzer.stats})
         = Cardinality(entries)

\* three calls, the first of which ended with an exception after recording
\* issues, and a kind counted twice over two documents
C20_Witness ==
  /\ Len(analyzed) = 3 /\ analyzed[1].raised
  /\ IssuesOf(analyzer, analyzed[1].path) # <<>>
  /\ \E kind \in SEO_CHECKS :
       /\ GetOr(analyzer.stats, kind, 0) = 2
       /\ \A p \in Paths : CountIn(kind, IssuesOf(analyzer, p)) = 1

\* -------------------------------------------------------------------------
\* Properties of whole passes over the corpus.
\* -------------------------------------------------------------------------
\* a fresh SEOAnalyzer after analyze_file on the documents of an order
RECURSIVE AnalyzeAll(_, _)
AnalyzeAll(self, order) ==
  IF order = <<>> THEN self
  ELSE AnalyzeAll(analyze_file(self, files[Head(order)], Head(order)).self, Tail(order))

\* every document was analyzed, once
AnalyzedOnceEach ==
  /\ Len(analyzed) = Cardinality(Paths)
  /\ \A p \in Paths : TimesAnalyzed(p) = 1

\* C21: when every document has been analyzed once by a fresh SEOAnalyzer,
\* the per-kind counters and the keyword tally are those of every other
\* processing order of the same documents; the counters of duplicate_title
\* and duplicate_description are the number of documents with a title (a
\* description) minus the number of distinct titles (descriptions).
C21_OrderIndependent ==
  AnalyzedOnceEach =>
    /\ \A order \in Orders :
         \A other \in {AnalyzeAll(SEOAnalyzer, order)} :
           /\ other.stats = analyzer.stats
           /\ other.all_keywords = analyzer.all_keywords
    /\ \A field \in {"title", "description"} :
         LET having == {p \in Paths : Truthy(Get(Metadata(files[p]), field))}
             values == {Get(Metadata(files[p]), field) : p \in having}
         IN GetOr(analyzer.stats, "duplicate_" \o field, 0)
              = Cardinality(having) - Cardinality(values)

\* two documents with one title and one description but different keywords,
\* analyzed once each: the second carries both duplicate flags, the first
\* none, and in the other order it is the other way round
C21_Witness ==
  /\ AnalyzedOnceEach
  /\ KeywordsOf(files[PathTerm]) # KeywordsOf(files[PathBlog])
  /\ GetOr(analyzer.stats, "duplicate_title", 0) = 1
  /\ GetOr(analyzer.stats, "duplicate_description", 0) = 1
  /\ InSeq("duplicate_description", IssuesOf(analyzer, analyzed[2].path))
  /\ ~InSeq("duplicate_description", IssuesOf(analyzer, analyzed[1].path))
  /\ \E order \in Orders :
       /\ order[1] = analyzed[2].path
       /\ InSeq("duplicate_description",
                IssuesOf(AnalyzeAll(SEOAnalyzer, order), analyzed[1].path))
       /\ AnalyzeAll(SEOAnalyzer, order).issues # analyzer.issues

\* C22: when process_directory or fix_keywords_in_directory prints its
\* summary, every document of the traversal has been counted once, as a
\* success or as a failure: the two counters add up to the number of
\* documents visited, and there are at least as many failures as documents
\* with a malformed front-block.
C22_EveryDocumentCounted ==
  (run.kind \in {"process_directory", "fix_keywords_in_directory"} /\ run.state = "reported")
  => /\ Len(run.done) = Cardinality(Paths)
     /\ run.success_count + run.error_count = Len(run.done)
     /\ run.error_count
          >= Cardinality({p \in Paths : ParseFront(files[p]).status = "invalid"})

\* -------------------------------------------------------------------------
\* C23: the record update_frontmatter builds for a document, its timestamps
\* left out, and the way the call ends are what a call in a freshly imported
\* module would give for the same file, path and mode: no earlier call of the
\* process, through the shared structuredData mapping of
\* DEFAULT_FRONTMATTER, has any part in it.
\* -------------------------------------------------------------------------
Timestamps == {"datePublished", "dateModified"}
Untimed(rec) == [y \in DOMAIN rec \ Timestamps |-> rec[y]]

C23_NoContamination ==
  last.op = "update" =>
    \A alone \in {update_frontmatter(last.before, last.path, last.preview,
                                     last.time, DefaultFrontmatterAt(0))} :
      /\ last.ret = alone.ret
      /\ Untimed(last.rec) = Untimed(alone.rec)

\* a record built after another document was rewritten with a different
\* structuredData, which the shared mapping then held
C23_Witness ==
  /\ last.op = "update" /\ last.ret = "True"
  /\ "author" \notin DOMAIN Metadata(last.before)
  /\ \E q \in SynthesisPaths \ {last.path} :
        /\ "author" \in DOMAIN Metadata(files[q])
        /\ Metadata(files[q])["structuredData"] # last.rec["structuredData"]
  /\ last.rec["structuredData"] # DefaultFrontmatterAt(0)["structuredData"]

\* -------------------------------------------------------------------------
\* C24: fix_keywords_in_file on a document whose front-block parses to a
\* mapping returns True and leaves keywords a list: the trimmed pieces, in
\* order, of a string value cut at its commas; the empty list for a missing
\* key; the list itself, in a file that is not written, for a list.  Every
\* other key and the body are as before, and a second call returns True and
\* leaves the file as the first one left it.
\* -------------------------------------------------------------------------
C24_NormalizesIdempotent ==
  (last.op = "fix" /\ HasMetadata(last.before)) =>
    LET old == Metadata(last.before)
        after == files[last.path]
        new == Metadata(after)
    IN /\ last.ret = "True"
       /\ HasMetadata(after)
       /\ "keywords" \in DOMAIN new /\ new["keywords"].t = "list"
       /\ ("keywords" \in DOMAIN old /\ old["keywords"].t = "str") =>
            \A pieces \in {Split(old["keywords"].c, <<",">>)} :
              /\ Len(new["keywords"].l) = Len(pieces)
              /\ \A i \in 1..Len(pieces) : new["keywords"].l[i] = Strip(pieces[i])
       /\ "keywords" \notin DOMAIN old => new["keywords"].l = <<>>
       /\ ("keywords" \in DOMAIN old /\ old["keywords"].t = "list") => after = last.before
       /\ Without(new, "keywords") = Without(old, "keywords")
       /\ after.body = last.before.body
       /\ fix_keywords_in_file(after) = [ret |-> "True", file |-> after]

\* a comma-joined string with a blank after the comma was rewritten as its
\* two tokens
C24_Witness ==
  /\ last.op = "fix" /\ last.ret = "True" /\ HasMetadata(last.before)
  /\ "keywords" \in DOMAIN Metadata(last.before)
  /\ Metadata(last.before)["keywords"].t = "str"
  /\ Split(Metadata(last.before)["keywords"].c, <<",">>)
       # StripAll(Split(Metadata(last.before)["keywords"].c, <<",">>))
  /\ files[last.path] # last.before
  /\ Len(Metadata(files[last.path])["keywords"].l) = 2

\* -------------------------------------------------------------------------
\* C25: a call of update_frontmatter (no preview) or of fix_keywords_in_file
\* that writes the document leaves a file that starts with a front-block and
\* whose text after it, which is what parsing the new file gives as body, is
\* the body the call read: the text after the old front-block, or the whole
\* old text when update_frontmatter found none.  A preview, a call on a
\* malformed front-block, fix_keywords_in_file on a document with no
\* front-block or with keywords a list, and a call that raised leave the
\* file as it was.
\* -------------------------------------------------------------------------
Writes(call) ==
  /\ call.ret = "True"
  /\ \/ call.op = "update" /\ ~call.preview
     \/ /\ call.op = "fix"
        /\ ~("keywords" \in DOMAIN Metadata(call.before)
               /\ Metadata(call.before)["keywords"].t = "list")

C25_BodyPreserved ==
  last.op \in {"update", "fix"} =>
    LET after == files[last.path]
        read == ParseFront(last.before)
    IN IF Writes(last)
       THEN /\ after.fm
            /\ ParseFront(after).status = "ok"
            /\ ParseFront(after).body = read.body
            /\ ~last.before.fm => ParseFront(after).body = last.before.body
       ELSE after = last.before

\* update_frontmatter put a front-block in front of a document that had none
C25_Witness ==
  /\ last.op = "update" /\ ~last.preview /\ last.ret = "True"
  /\ ~last.before.fm
  /\ files[last.path].fm
  /\ files[last.path].yaml # <<>>
  /\ files[last.path].body = last.before.body
  /\ last.before.body # <<>>

====
